---- MODULE Spec2Model ----
(***************************************************************************)
(* A model of AthenaJS's Map (js/Map/Map.js): the viewport and its scroll  *)
(* state machine, the window spawner, the tile triggers, the tile grid     *)
(* (two byte planes over one buffer) and the collision queries on it.      *)
(*                                                                         *)
(* The Map instance is the record `map` (one field per field of the        *)
(* class); the operators below are its methods, written as functions from  *)
(* a heap h = [map, sprites, ghost logs] to the heap after the call.  The  *)
(* actions Call* are the calls the scene makes on the map.                 *)
(*                                                                         *)
(* The InputManager singleton (js/Input/InputManager.js) is the record     *)
(* `input`; its methods are functions from that record to the record after *)
(* the call.                                                               *)
(***************************************************************************)
EXTENDS Integers, Sequences, FiniteSets, TLC

VARIABLES
    map,        \* the Map instance (fields of `this`)
    sprites,    \* fields x, y of the drawables the scene owns, by id
    clock,      \* the wall clock: Date.getTime() and the frame timestamp
    lastOp,     \* ghost: the method the scene called last
    called,     \* ghost: the internal calls the last method made, in order
    dispatched, \* ghost: the triggers handed to mapEvent.handleEvent by it,
                \*        each with what the handler returned
    spawned,    \* ghost: per window, how often its items were instantiated
                \*        since the last reset()
    request,    \* ghost: arguments of the moveTo that started the scroll
    result,     \* ghost: how the last call ended: the exception it threw, if
                \*        any, and the value it returned
    edits,      \* ghost: the number of calls so far that write the tile grid
    updated,    \* ghost: the drawables whose update() the last call called,
                \*        in order
    input       \* the InputManager singleton (js/Input/InputManager.js)

vars == <<map, sprites, clock, lastOp, called, dispatched, spawned, request,
          result, edits, updated, input>>

----------------------------------------------------------------------------
(* Bounds of the model *)

\* the clock advances in ticks of half a scroll duration, up to MaxTicks ticks
MaxTicks == 4
\* easing functions return k / EaseDen, k \in 0..EaseDen
EaseDen == 2

\* the scene writes the tile grid at most MaxEdits times
MaxEdits == 2

\* the platforms list is let grow to MaxPlatforms entries
MaxPlatforms == 2

\* a recording holds at most MaxSnapshots key states
MaxSnapshots == 2

\* the animation frames requested in a run
MaxFrames == 4

\* the callbacks installed at a time
MaxCallbacks == 2

----------------------------------------------------------------------------
(* JavaScript arithmetic *)

\* x / y | 0 : real division truncated toward zero (y > 0)
TruncDiv(a, b) == IF a >= 0 THEN a \div b ELSE -((-a) \div b)

\* x % y : the remainder has the sign of the dividend (y > 0)
JsRem(a, b) == a - b * TruncDiv(a, b)

\* Math.floor(a / b), Math.ceil(a / b), Math.abs(a)
Floor(a, b) == a \div b
Ceil(a, b) == -((-a) \div b)
Abs(a) == IF a < 0 THEN -a ELSE a

Range(s) == {s[i] : i \in 1..Len(s)}

----------------------------------------------------------------------------
(* Program constants *)

ViewportLimitX == 230
ViewportCenterX == 307
ViewportLimitY == 154
ViewportCenterY == 230
Duration == 800

\* the id of the player's sprite (items of windows are <<window, index>>)
Player == <<-1, 0>>
\* null, where a drawable is expected
NoObject == <<-2, 0>>

\* Sprite.getHitBox() of the player: a box relative to its position
PlayerHitBox == [x |-> 5, y |-> 0, x2 |-> 60, y2 |-> 45]

\* obj.master, obj.collideGroup, obj.movable of a drawable
Attr(o, id) ==
    IF id = Player
    THEN [master |-> TRUE, collideGroup |-> 0, movable |-> TRUE]
    ELSE o.windows[id[1]].items[id[2]]

----------------------------------------------------------------------------
(* Typed arrays: an ArrayBuffer is a sequence of bytes, a Uint8Array a window
   [off, len] on the buffer it was made on *)

\* reading past the end of a typed array (or at a negative index) gives
\* undefined, which is no byte
Undefined == -1

\* the behavior codes of Tile.TYPE
AIR == 1
WALL == 2

NoView == [off |-> 0, len |-> 0]

\* view[i]
Get(buffer, view, i) ==
    IF i >= 0 /\ i < view.len THEN buffer[view.off + i + 1] ELSE Undefined

\* view[i] = value : stored modulo 256, dropped outside the view
Put(buffer, view, i, value) ==
    IF i >= 0 /\ i < view.len
    THEN [buffer EXCEPT ![view.off + i + 1] = value % 256]
    ELSE buffer

\* the content of a view, first element first
Plane(buffer, view) == [i \in 1..view.len |-> buffer[view.off + i]]

\* new ArrayBuffer(n), new Uint8Array(n)
Zeros(n) == [i \in 1..n |-> 0]

\* the call returns value
Return(h, value) == [h EXCEPT !.result = [thrown |-> "", ret |-> value]]
\* the call throws
Throw(h, error) == [h EXCEPT !.result = [thrown |-> error, ret |-> <<>>]]

NoResult == [thrown |-> "", ret |-> <<>>]

\* new Uint8Array(buffer, 0, size) and new Uint8Array(buffer, size) throw a
\* RangeError when size is beyond the end of the buffer; the second view takes
\* whatever follows the first
setBuffer(h, buffer) ==
    LET m == h.map
        size == m.numCols * m.numRows
    IN  IF size > Len(buffer)
        THEN Throw(h, "RangeError")
        ELSE [h EXCEPT !.map = [m EXCEPT
                 !.map = [off |-> 0, len |-> size],
                 !.tileBehaviors = [off |-> size, len |-> Len(buffer) - size],
                 !.buffer = buffer]]

----------------------------------------------------------------------------
(* new Map(options) *)

\* the constructor, to its end or to the exception that ends it
construct(o) ==
  LET this ==
    [ options |-> o,
      tileWidth |-> o.tileWidth, tileHeight |-> o.tileHeight,
      width |-> o.width, height |-> o.height,
      tiles |-> o.tiles,
      viewportX |-> o.viewportX, viewportY |-> o.viewportY,
      viewportW |-> o.viewportW, viewportH |-> o.viewportH,
      triggers |-> [k \in o.triggers |-> [triggered |-> FALSE]],
      windows |-> [w \in DOMAIN o.windows |-> [displayed |-> FALSE]],
      maxWinX |-> TruncDiv(o.width, o.viewportW),
      xMax |-> o.width - o.viewportW,
      yMax |-> o.height - o.viewportH,
      viewportTargetX |-> 0, viewportTargetY |-> 0,
      viewportSpeedX |-> 0, viewportSpeedY |-> 0,
      viewportStartX |-> 0, viewportStartY |-> 0,
      objects |-> <<>>, friendBullets |-> <<>>, enemies |-> <<>>,
      platforms |-> <<>>,
      numCols |-> TruncDiv(o.width, o.tileWidth),
      numRows |-> TruncDiv(o.height, o.tileHeight),
      numViewportCols |-> Ceil(o.viewportW, o.tileWidth),
      numViewportRows |-> Ceil(o.viewportH, o.tileHeight),
      firstRow |-> 0, lastRow |-> 0, firstCol |-> 0, lastCol |-> 0,
      moving |-> FALSE,
      startMoveTime |-> 0,     \* null: timestamp - null is timestamp
      masterObject |-> NoObject,
      startX |-> o.startX, startY |-> o.startY,
      isDirty |-> TRUE,
      srcBitmap |-> FALSE,     \* null until draw() resolves the source
      tileOffsetX |-> 0, tileOffsetY |-> 0,
      scrollTileWidth |-> 0, scrollTileHeight |-> 0,
      buffer |-> <<>>, map |-> NoView, tileBehaviors |-> NoView ]
  IN setBuffer([map |-> this, result |-> NoResult], o.buffer)

Map(o) == construct(o).map

\* the heap the methods work on; script says what the update() of a drawable
\* does to the map in this call: script[id] is the drawable it removes
Heap == [map |-> map, sprites |-> sprites, called |-> <<>>,
         dispatched |-> <<>>, spawned |-> spawned, request |-> request,
         result |-> NoResult, edits |-> edits, updated |-> <<>>,
         script |-> <<>>]

Called(h, name) == [h EXCEPT !.called = Append(@, name)]

----------------------------------------------------------------------------
(* Scrolling *)

\* moveTo without the test of this.moving
moveTo_whileMoving(h, x, y, now) ==
    LET m == h.map
        targetX == IF x < -m.xMax THEN -m.xMax ELSE x
        targetY == IF y < -m.yMax THEN -m.yMax ELSE y
    IN  IF m.viewportX # targetX \/ m.viewportY # targetY
        THEN [h EXCEPT
                !.map = [m EXCEPT
                    !.viewportTargetX = IF targetX > 0 THEN 0 ELSE targetX,
                    !.viewportTargetY = IF targetY > 0 THEN 0 ELSE targetY,
                    !.startMoveTime = now,
                    !.viewportSpeedX = targetX - m.viewportX,
                    !.viewportSpeedY = targetY - m.viewportY,
                    !.viewportStartX = m.viewportX,
                    !.viewportStartY = m.viewportY,
                    !.moving = TRUE],
                !.request = [x |-> x, y |-> y]]
        ELSE h

\* moveTo without the snap of the target to the far edges of the map
moveTo_noSnap(h, x, y, now) ==
    LET m == h.map
    IN  IF ~m.moving /\ (m.viewportX # x \/ m.viewportY # y)
        THEN [h EXCEPT
                !.map = [m EXCEPT
                    !.viewportTargetX = IF x > 0 THEN 0 ELSE x,
                    !.viewportTargetY = IF y > 0 THEN 0 ELSE y,
                    !.startMoveTime = now,
                    !.viewportSpeedX = x - m.viewportX,
                    !.viewportSpeedY = y - m.viewportY,
                    !.viewportStartX = m.viewportX,
                    !.viewportStartY = m.viewportY,
                    !.moving = TRUE],
                !.request = [x |-> x, y |-> y]]
        ELSE h

moveTo(h, x, y, now) ==
    LET m == h.map
        targetX == IF x < -m.xMax THEN -m.xMax ELSE x
        targetY == IF y < -m.yMax THEN -m.yMax ELSE y
    IN  IF ~m.moving /\ (m.viewportX # targetX \/ m.viewportY # targetY)
        THEN [h EXCEPT
                !.map = [m EXCEPT
                    !.viewportTargetX = IF targetX > 0 THEN 0 ELSE targetX,
                    !.viewportTargetY = IF targetY > 0 THEN 0 ELSE targetY,
                    !.startMoveTime = now,
                    !.viewportSpeedX = targetX - m.viewportX,
                    !.viewportSpeedY = targetY - m.viewportY,
                    !.viewportStartX = m.viewportX,
                    !.viewportStartY = m.viewportY,
                    !.moving = TRUE],
                !.request = [x |-> x, y |-> y]]
        ELSE h

\* destX / destY of checkMasterPosition; NoDest is null
NoDest == 1000000

\* checkMasterPosition that scrolls back also when the viewport is at the
\* origin
checkMasterPosition_fromOrigin(h, now) ==
    LET m == h.map
        master == h.sprites[Player]
        destX == IF master.x + m.viewportX <= ViewportLimitX
                 THEN m.viewportX + ViewportCenterX
                 ELSE IF (-m.viewportX + m.viewportW) - master.x
                            <= ViewportLimitX
                      THEN m.viewportX - ViewportCenterX
                      ELSE NoDest
        destY == IF master.y + m.viewportY <= ViewportLimitY
                 THEN m.viewportY + ViewportCenterY
                 ELSE IF (-m.viewportY + m.viewportH) - master.y
                            <= ViewportLimitY
                      THEN m.viewportY - ViewportCenterY
                      ELSE NoDest
        x == IF destX # NoDest THEN destX ELSE m.viewportX
        y == IF destY # NoDest THEN destY ELSE m.viewportY
        h0 == Called(h, "checkMasterPosition")
    IN  IF m.masterObject # NoObject /\ ~m.moving
           /\ (destX # NoDest \/ destY # NoDest)
        THEN moveTo(moveTo(h0, x, y, now), x, y, now)
        ELSE h0

checkMasterPosition(h, now) ==
    LET m == h.map
        master == h.sprites[Player]
        destX == IF m.viewportX # 0
                    /\ master.x + m.viewportX <= ViewportLimitX
                 THEN m.viewportX + ViewportCenterX
                 ELSE IF (-m.viewportX + m.viewportW) - master.x
                            <= ViewportLimitX
                      THEN m.viewportX - ViewportCenterX
                      ELSE NoDest
        destY == IF m.viewportY # 0
                    /\ master.y + m.viewportY <= ViewportLimitY
                 THEN m.viewportY + ViewportCenterY
                 ELSE IF (-m.viewportY + m.viewportH) - master.y
                            <= ViewportLimitY
                      THEN m.viewportY - ViewportCenterY
                      ELSE NoDest
        x == IF destX # NoDest THEN destX ELSE m.viewportX
        y == IF destY # NoDest THEN destY ELSE m.viewportY
        h0 == Called(h, "checkMasterPosition")
    IN  IF m.masterObject # NoObject /\ ~m.moving
           /\ (destX # NoDest \/ destY # NoDest)
        THEN moveTo(moveTo(h0, x, y, now), x, y, now)
        ELSE h0

----------------------------------------------------------------------------
(* Triggers *)

getTileIndexFromPixel(m, x, y) ==
    [x |-> TruncDiv(x, m.tileWidth), y |-> TruncDiv(y, m.tileHeight)]

\* the cells (i, j) in the order of the loops
\*   for (i = c0; i <= c1; i++) for (j = r0; j <= r1; j++)
ColumnMajor(c0, c1, r0, r1) ==
    IF c1 < c0 \/ r1 < r0 THEN <<>>
    ELSE LET nr == r1 - r0 + 1
         IN  [k \in 1..((c1 - c0 + 1) * nr) |->
                [i |-> c0 + ((k - 1) \div nr), j |-> r0 + ((k - 1) % nr)]]

\* getTriggersForBox that also returns the triggers already triggered
getTriggersForBox_all(m, x, y, x2, y2) ==
    LET pos1 == getTileIndexFromPixel(m, x, y)
        pos2 == getTileIndexFromPixel(m, x2, y)
        pos3 == getTileIndexFromPixel(m, x, y2)
        cells == ColumnMajor(pos1.x, pos2.x, pos1.y, pos3.y)
        Key(c) == c.j * m.numCols + c.i
        Present(c) == Key(c) \in DOMAIN m.triggers
        found == SelectSeq(cells, Present)
    IN  [k \in 1..Len(found) |-> Key(found[k])]

\* the keys of the triggers returned, in the order they are pushed
getTriggersForBox(m, x, y, x2, y2) ==
    LET pos1 == getTileIndexFromPixel(m, x, y)
        pos2 == getTileIndexFromPixel(m, x2, y)
        pos3 == getTileIndexFromPixel(m, x, y2)
        cells == ColumnMajor(pos1.x, pos2.x, pos1.y, pos3.y)
        Key(c) == c.j * m.numCols + c.i
        Live(c) == Key(c) \in DOMAIN m.triggers
                   /\ ~m.triggers[Key(c)].triggered
        found == SelectSeq(cells, Live)
    IN  [k \in 1..Len(found) |-> Key(found[k])]

\* forEach that stores the handler's result as it is
RECURSIVE dispatchAll_direct(_, _, _)
dispatchAll_direct(h, keys, answers) ==
    IF keys = <<>> THEN h
    ELSE LET key == Head(keys)
             h1 == [h EXCEPT
                      !.map.triggers[key].triggered = answers[key],
                      !.dispatched =
                          Append(@, [key |-> key, result |-> answers[key]])]
         IN  dispatchAll_direct(h1, Tail(keys), answers)

\* triggers.forEach(trigger => trigger.triggered = !handleEvent(trigger));
\* answers[key] is what mapEvent.handleEvent returns for the trigger
RECURSIVE dispatchAll(_, _, _)
dispatchAll(h, keys, answers) ==
    IF keys = <<>> THEN h
    ELSE LET key == Head(keys)
             h1 == [h EXCEPT
                      !.map.triggers[key].triggered = ~answers[key],
                      !.dispatched =
                          Append(@, [key |-> key, result |-> answers[key]])]
         IN  dispatchAll(h1, Tail(keys), answers)

checkForTriggers(h, answers) ==
    LET m == h.map
        master == h.sprites[Player]
        box == PlayerHitBox
        triggers == getTriggersForBox(m, master.x + box.x, master.y + box.y,
                                      master.x + box.x2, master.y + box.y2)
    IN  dispatchAll(Called(h, "checkForTriggers"), triggers, answers)

----------------------------------------------------------------------------
(* update(timestamp) *)

\* array.indexOf(obj), from 1; 0 when obj is not in the array
IndexOf(array, obj) ==
    IF \E i \in 1..Len(array) : array[i] = obj
    THEN CHOOSE i \in 1..Len(array) :
            array[i] = obj /\ \A j \in 1..(i - 1) : array[j] # obj
    ELSE 0

\* array.splice(i, 1)
Splice(array, i) == SubSeq(array, 1, i - 1) \o SubSeq(array, i + 1, Len(array))

removeObject(h, drawable) ==
    LET m == h.map
        i == IndexOf(m.objects, drawable)
        h1 == IF i > 0 THEN [h EXCEPT !.map.objects = Splice(@, i)] ELSE h
        e == IndexOf(m.enemies, drawable)
        f == IndexOf(m.friendBullets, drawable)
    IN  IF e > 0
        THEN [h1 EXCEPT !.map.enemies = Splice(@, e)]
        ELSE IF f > 0
        THEN [h1 EXCEPT !.map.friendBullets = Splice(@, f)]
        ELSE h1

\* obj.update(timestamp): the player's update() moves it to pos; the update()
\* of a drawable with a script removes a drawable from the map
objUpdate(h, obj, pos) ==
    LET h1 == [h EXCEPT !.updated = Append(@, obj)]
        h2 == IF obj = Player THEN [h1 EXCEPT !.sprites[Player] = pos] ELSE h1
    IN  IF obj \in DOMAIN h.script
        THEN removeObject(h2, h.script[obj])
        ELSE h2

\* forEach on this.platforms from index k on: the indices below the length
\* the array had at the start, as far as the array still goes
RECURSIVE platformsForEach(_, _, _, _)
platformsForEach(h, k, len, pos) ==
    IF k > len \/ k > Len(h.map.platforms) THEN h
    ELSE LET obj == h.map.platforms[k]
             h1 == IF Attr(h.map.options, obj).movable
                   THEN objUpdate(h, obj, pos) ELSE h
         IN  platformsForEach(h1, k + 1, len, pos)

\* platforms.forEach(obj => obj.movable && obj.update(timestamp))
movePlatforms(h, pos) ==
    platformsForEach(Called(h, "movePlatforms"), 1, Len(h.map.platforms), pos)

RECURSIVE objectsForEach(_, _, _, _)
objectsForEach(h, k, len, pos) ==
    IF k > len \/ k > Len(h.map.objects) THEN h
    ELSE LET obj == h.map.objects[k]
             a == Attr(h.map.options, obj)
             h1 == IF a.collideGroup # 3 /\ a.movable
                   THEN objUpdate(h, obj, pos) ELSE h
         IN  objectsForEach(h1, k + 1, len, pos)

\* moveObjects that lets every movable object update, platforms as well
moveObjects_all(h, pos) ==
    LET RECURSIVE all(_, _)
        all(g, k) ==
            IF k > Len(g.map.objects) THEN g
            ELSE all(IF Attr(g.map.options, g.map.objects[k]).movable
                     THEN objUpdate(g, g.map.objects[k], pos) ELSE g, k + 1)
    IN  all(Called(h, "moveObjects"), 1)

\* objects.forEach(obj => obj.collideGroup !== 3 && obj.movable &&
\* obj.update(timestamp))
moveObjects(h, pos) ==
    objectsForEach(Called(h, "moveObjects"), 1, Len(h.map.objects), pos)

\* update that ends a scroll on the eased position instead of the target
update_noTarget(h, timestamp, ease, answers, pos) ==
    LET m == h.map
        ellapsedTime == timestamp - m.startMoveTime
        h1 == IF m.moving
              THEN [h EXCEPT
                      !.map.moving = ellapsedTime < Duration,
                      !.map.viewportX =
                          TruncDiv(m.viewportStartX * EaseDen
                                   + ease * m.viewportSpeedX, EaseDen),
                      !.map.viewportY =
                          TruncDiv(m.viewportStartY * EaseDen
                                   + ease * m.viewportSpeedY, EaseDen),
                      !.map.isDirty = TRUE]
              ELSE IF m.masterObject # NoObject
                   THEN checkForTriggers(checkMasterPosition(h, timestamp),
                                         answers)
                   ELSE h
    IN  moveObjects(movePlatforms(h1, pos), pos)

\* update that looks at the master in the frames of a scroll too
update_always(h, timestamp, ease, answers, pos) ==
    LET m == h.map
        ellapsedTime == timestamp - m.startMoveTime
        h1 == IF m.moving
              THEN IF ellapsedTime >= Duration
                   THEN [h EXCEPT !.map.moving = FALSE,
                                  !.map.viewportX = m.viewportTargetX,
                                  !.map.viewportY = m.viewportTargetY,
                                  !.map.isDirty = TRUE]
                   ELSE [h EXCEPT
                           !.map.viewportX =
                               TruncDiv(m.viewportStartX * EaseDen
                                        + ease * m.viewportSpeedX, EaseDen),
                           !.map.viewportY =
                               TruncDiv(m.viewportStartY * EaseDen
                                        + ease * m.viewportSpeedY, EaseDen),
                           !.map.isDirty = TRUE]
              ELSE h
        h2 == IF m.masterObject # NoObject
              THEN checkForTriggers(checkMasterPosition(h1, timestamp),
                                    answers)
              ELSE h1
    IN  moveObjects(movePlatforms(h2, pos), pos)

\* ease / EaseDen is what this.easing(t, ellapsedTime, 0, 1, duration) returns
update(h, timestamp, ease, answers, pos) ==
    LET m == h.map
        ellapsedTime == timestamp - m.startMoveTime
        h1 == IF m.moving
              THEN IF ellapsedTime >= Duration
                   THEN [h EXCEPT !.map.moving = FALSE,
                                  !.map.viewportX = m.viewportTargetX,
                                  !.map.viewportY = m.viewportTargetY,
                                  !.map.isDirty = TRUE]
                   ELSE [h EXCEPT
                           !.map.viewportX =
                               TruncDiv(m.viewportStartX * EaseDen
                                        + ease * m.viewportSpeedX, EaseDen),
                           !.map.viewportY =
                               TruncDiv(m.viewportStartY * EaseDen
                                        + ease * m.viewportSpeedY, EaseDen),
                           !.map.isDirty = TRUE]
              ELSE IF m.masterObject # NoObject
                   THEN checkForTriggers(checkMasterPosition(h, timestamp),
                                         answers)
                   ELSE h
    IN  moveObjects(movePlatforms(h1, pos), pos)

----------------------------------------------------------------------------
(* The registry *)

\* obj.x, obj.y are kept for the sprites the scene owns
setMasterObject(h, obj) ==
    IF obj \in DOMAIN h.sprites
    THEN [h EXCEPT !.map.masterObject = obj,
                   !.sprites[obj] = [x |-> h.map.startX, y |-> h.map.startY]]
    ELSE [h EXCEPT !.map.masterObject = obj]

addObject(h, obj) ==
    LET a == Attr(h.map.options, obj)
        h1 == [h EXCEPT !.map.objects = Append(@, obj)]
        h2 == IF a.master THEN setMasterObject(h1, obj) ELSE h1
    IN  IF a.collideGroup = 1
        THEN [h2 EXCEPT !.map.enemies = Append(@, obj)]
        ELSE IF a.collideGroup = 2
        THEN [h2 EXCEPT !.map.friendBullets = Append(@, obj)]
        ELSE IF a.collideGroup = 3
        THEN [h2 EXCEPT !.map.platforms = Append(@, obj)]
        ELSE h2

\* reset that leaves the flags of the windows and of the triggers alone
reset_keepFlags(h) ==
    LET m == h.map
        o == m.options
    IN  [Called(h, "mapEvent.reset") EXCEPT
           !.map = [m EXCEPT
               !.tileOffsetX = 0, !.tileOffsetY = 0,
               !.scrollTileWidth = 0, !.scrollTileHeight = 0,
               !.masterObject = NoObject,
               !.objects = <<>>, !.friendBullets = <<>>,
               !.enemies = <<>>, !.platforms = <<>>,
               !.viewportX = o.viewportX, !.viewportY = o.viewportY,
               !.viewportW = o.viewportW, !.viewportH = o.viewportH,
               !.firstCol = TruncDiv(-o.viewportX, m.tileWidth),
               !.firstRow = TruncDiv(-o.viewportY, m.tileHeight),
               !.lastCol = TruncDiv(-o.viewportX, m.tileWidth)
                           + m.numViewportCols,
               !.lastRow = TruncDiv(-o.viewportY, m.tileHeight)
                           + m.numViewportRows,
               !.startX = o.startX, !.startY = o.startY,
               !.isDirty = TRUE],
           !.spawned = [w \in DOMAIN h.spawned |-> 0]]

reset(h) ==
    LET m == h.map
        o == m.options
    IN  [Called(h, "mapEvent.reset") EXCEPT
           !.map = [m EXCEPT
               !.tileOffsetX = 0, !.tileOffsetY = 0,
               !.scrollTileWidth = 0, !.scrollTileHeight = 0,
               !.masterObject = NoObject,
               !.objects = <<>>, !.friendBullets = <<>>,
               !.enemies = <<>>, !.platforms = <<>>,
               !.windows = [w \in DOMAIN m.windows |->
                               [m.windows[w] EXCEPT !.displayed = FALSE]],
               !.triggers = [k \in DOMAIN m.triggers |->
                               [m.triggers[k] EXCEPT !.triggered = FALSE]],
               !.viewportX = o.viewportX, !.viewportY = o.viewportY,
               !.viewportW = o.viewportW, !.viewportH = o.viewportH,
               !.firstCol = TruncDiv(-o.viewportX, m.tileWidth),
               !.firstRow = TruncDiv(-o.viewportY, m.tileHeight),
               !.lastCol = TruncDiv(-o.viewportX, m.tileWidth)
                           + m.numViewportCols,
               !.lastRow = TruncDiv(-o.viewportY, m.tileHeight)
                           + m.numViewportRows,
               !.startX = o.startX, !.startY = o.startY,
               !.isDirty = TRUE],
           !.spawned = [w \in DOMAIN h.spawned |-> 0]]

setViewPort(h, x, y, width, height) ==
    [h EXCEPT !.map.viewportX = x, !.map.viewportY = y,
              !.map.viewportW = width, !.map.viewportH = height]

----------------------------------------------------------------------------
(* Windows *)

\* window.items.forEach(item => this.addObject(newResourceFromPool(...)))
RECURSIVE addItems(_, _, _)
addItems(h, windowNum, k) ==
    IF k > Len(h.map.options.windows[windowNum].items) THEN h
    ELSE addItems(addObject(h, <<windowNum, k>>), windowNum, k + 1)

\* addNewObjectsFromWindow that does not mark the window displayed
addNewObjectsFromWindow_unmarked(h, windowNum) ==
    IF windowNum \in DOMAIN h.map.windows
       /\ h.map.windows[windowNum].displayed = FALSE
    THEN addItems([h EXCEPT !.spawned[windowNum] = @ + 1], windowNum, 1)
    ELSE h

addNewObjectsFromWindow(h, windowNum) ==
    IF windowNum \in DOMAIN h.map.windows
       /\ h.map.windows[windowNum].displayed = FALSE
    THEN addItems([h EXCEPT !.map.windows[windowNum].displayed = TRUE,
                            !.spawned[windowNum] = @ + 1],
                  windowNum, 1)
    ELSE h

\* for (i = startIndex; i <= max; i += maxWinX) { ... }
RECURSIVE windowsLoop(_, _, _, _)
windowsLoop(h, i, max, mod) ==
    IF i > max THEN h
    ELSE LET h1 == addNewObjectsFromWindow(h, i)
             h2 == IF mod # 0 THEN addNewObjectsFromWindow(h1, i + 1) ELSE h1
         IN  windowsLoop(h2, i + h.map.maxWinX, max, mod)

checkVisibleWindows(h) ==
    LET m == h.map
        startIndex == TruncDiv(Abs(m.viewportY) * m.maxWinX, m.viewportH)
        max == IF JsRem(m.viewportY, m.viewportH) # 0
               THEN startIndex + m.maxWinX ELSE startIndex
        mod == JsRem(m.viewportX, m.viewportW)
    IN  windowsLoop(Called(h, "checkVisibleWindows"), startIndex, max, mod)

_getBoundariesTiles(h, showHidden) ==
    LET m == h.map
        firstCol == Floor(-m.viewportX, m.tileWidth)
        firstRow == Floor(-m.viewportY, m.tileHeight)
    IN  IF showHidden
        THEN [h EXCEPT !.map.firstCol = 0, !.map.firstRow = 0,
                       !.map.lastCol = TruncDiv(m.width, m.tileWidth),
                       !.map.lastRow = TruncDiv(m.height, m.tileHeight)]
        ELSE [h EXCEPT
                !.map.firstCol = firstCol, !.map.firstRow = firstRow,
                !.map.lastCol = firstCol + m.numViewportCols
                    + (IF JsRem(m.viewportX, m.tileWidth) # 0 THEN 1 ELSE 0),
                !.map.lastRow = firstRow + m.numViewportRows
                    + (IF JsRem(m.viewportY, m.tileHeight) # 0 THEN 1 ELSE 0)]

_getTileOffset(h) ==
    LET m == h.map
        viewportX == Abs(m.viewportX)
        viewportY == Abs(m.viewportY)
        tileOffsetX == IF viewportX < m.tileWidth THEN viewportX
                       ELSE viewportX % m.tileWidth
        tileOffsetY == IF viewportY < m.tileHeight THEN viewportY
                       ELSE viewportY % m.tileHeight
    IN  [h EXCEPT !.map.tileOffsetX = tileOffsetX,
                  !.map.tileOffsetY = tileOffsetY,
                  !.map.scrollTileWidth = m.tileWidth - tileOffsetX,
                  !.map.scrollTileHeight = m.tileHeight - tileOffsetY]

\* draw that marks the map clean before it looks for the source bitmap
draw_cleanFirst(h, showHidden, resource) ==
    IF h.map.tiles = 0
    THEN [h EXCEPT !.map.isDirty = FALSE]
    ELSE IF ~h.map.srcBitmap /\ ~resource
    THEN Throw([h EXCEPT !.map.isDirty = FALSE],
               "no source bitmap found when drawing map")
    ELSE LET h0 == [h EXCEPT !.map.srcBitmap = TRUE]
             h1 == IF h0.map.isDirty \/ h0.map.lastCol = 0
                   THEN _getBoundariesTiles(h0, showHidden) ELSE h0
         IN  IF h1.map.isDirty \/ h1.map.lastCol = 0
             THEN [checkVisibleWindows(_getTileOffset(h1))
                     EXCEPT !.map.isDirty = FALSE]
             ELSE h1

\* draw(ctx, showHidden); resource tells whether RM.getResourceById(this.src)
\* returns a bitmap
draw(h, showHidden, resource) ==
    IF h.map.tiles = 0
    THEN [h EXCEPT !.map.isDirty = FALSE]
    ELSE IF ~h.map.srcBitmap /\ ~resource
    THEN Throw(h, "no source bitmap found when drawing map")
    ELSE LET h0 == [h EXCEPT !.map.srcBitmap = TRUE]
             h1 == IF h0.map.isDirty \/ h0.map.lastCol = 0
                   THEN _getBoundariesTiles(h0, showHidden) ELSE h0
         IN  IF h1.map.isDirty \/ h1.map.lastCol = 0
             THEN [checkVisibleWindows(_getTileOffset(h1))
                     EXCEPT !.map.isDirty = FALSE]
             ELSE h1

----------------------------------------------------------------------------
(* The tile grid: reads and edits *)

Min(a, b) == IF a < b THEN a ELSE b

getTileBehaviorAtIndex(m, col, row) ==
    Get(m.buffer, m.tileBehaviors, m.numCols * row + col)

\* this.map[numCols * row + col], the visual cell
getTileAtIndex(m, col, row) ==
    Get(m.buffer, m.map, m.numCols * row + col)

\* updateTile addressing the cell column-major
updateTile_transposed(h, col, row, tileNum, behavior) ==
    LET m == h.map
        pos == col * m.numRows + row
        b1 == IF tileNum > -1 THEN Put(m.buffer, m.map, pos, tileNum)
              ELSE m.buffer
        b2 == IF behavior > -1 THEN Put(b1, m.tileBehaviors, pos, behavior)
              ELSE b1
    IN  Return([h EXCEPT !.map = [m EXCEPT
                   !.buffer = b2,
                   !.isDirty = IF tileNum > -1 \/ behavior > -1
                               THEN TRUE ELSE @]],
               <<>>)

updateTile(h, col, row, tileNum, behavior) ==
    LET m == h.map
        pos == row * m.numCols + col
        b1 == IF tileNum > -1 THEN Put(m.buffer, m.map, pos, tileNum)
              ELSE m.buffer
        b2 == IF behavior > -1 THEN Put(b1, m.tileBehaviors, pos, behavior)
              ELSE b1
    IN  Return([h EXCEPT !.map = [m EXCEPT
                   !.buffer = b2,
                   !.isDirty = IF tileNum > -1 \/ behavior > -1
                               THEN TRUE ELSE @]],
               <<>>)

\* view[0 .. n-1] = value, as far as the view goes
Fill(buffer, view, n, value) ==
    [k \in 1..Len(buffer) |->
        IF k - 1 >= view.off /\ k - 1 - view.off < Min(n, view.len)
        THEN value % 256 ELSE buffer[k]]

\* the two loops of clear() visit every index below numCols * numRows
clear(h, tileNum, behavior) ==
    LET m == h.map
        size == m.numCols * m.numRows
        b1 == Fill(m.buffer, m.map, size, tileNum)
        b2 == Fill(b1, m.tileBehaviors, size, behavior)
    IN  Return([h EXCEPT !.map = [m EXCEPT !.buffer = b2]], <<>>)

\* view.set(source, offset), the source being n bytes of the same buffer from
\* srcOff on (copied as if through a temporary)
CopyWithin(buffer, srcOff, n, view, offset) ==
    [k \in 1..Len(buffer) |->
        LET i == k - 1 - view.off - offset
        IN  IF i >= 0 /\ i < n THEN buffer[srcOff + i + 1] ELSE buffer[k]]

\* buffer after copying n bytes one by one, from the first to the last
RECURSIVE CopyForward(_, _, _, _, _, _)
CopyForward(buffer, srcOff, n, view, offset, i) ==
    IF i >= n THEN buffer
    ELSE CopyForward([buffer EXCEPT ![view.off + offset + i + 1] =
                                        buffer[srcOff + i + 1]],
                     srcOff, n, view, offset, i + 1)

\* shift that copies byte by byte, so that a line it has already written is
\* read again as a source
shift_forward(h, startLine, height, tile) ==
    LET m == h.map
        n == startLine * m.numCols
        size == m.numCols * m.numRows
        offset == height * m.numCols
        b1 == CopyForward(m.buffer, 0, n, m.map, offset, 0)
        b2 == CopyForward(b1, size, n, m.tileBehaviors, offset, 0)
    IN  IF n > Len(m.buffer) \/ size + n > Len(m.buffer)
        THEN Throw(h, "RangeError")
        ELSE IF n + offset > m.map.len
        THEN Throw(h, "RangeError")
        ELSE IF n + offset > m.tileBehaviors.len
        THEN Throw([h EXCEPT !.map = [m EXCEPT !.buffer = b1]], "RangeError")
        ELSE Return([h EXCEPT !.map = [m EXCEPT !.buffer = b2,
                                                !.isDirty = TRUE]], <<>>)

shift(h, startLine, height, tile) ==
    LET m == h.map
        n == startLine * m.numCols
        size == m.numCols * m.numRows
        offset == height * m.numCols
        b1 == CopyWithin(m.buffer, 0, n, m.map, offset)
        b2 == CopyWithin(b1, size, n, m.tileBehaviors, offset)
    IN  IF n > Len(m.buffer) \/ size + n > Len(m.buffer)
        THEN Throw(h, "RangeError")
        ELSE IF n + offset > m.map.len
        THEN Throw(h, "RangeError")
        ELSE IF n + offset > m.tileBehaviors.len
        THEN Throw([h EXCEPT !.map = [m EXCEPT !.buffer = b1]], "RangeError")
        ELSE Return([h EXCEPT !.map = [m EXCEPT !.buffer = b2,
                                                !.isDirty = TRUE]], <<>>)

\* new Uint8Array(array): each element modulo 256
Bytes(array) == [i \in 1..Len(array) |-> array[i] % 256]

\* setData copying the behaviors from their second byte on
setData_offByOne(h, v, b) ==
    LET m == h.map
        size == m.numCols * m.numRows
        array == [k \in 1..(2 * size) |->
                    IF k - size >= 1 /\ k - size < Len(b)
                    THEN Bytes(b)[k - size + 1]
                    ELSE IF k <= Len(v) THEN Bytes(v)[k] ELSE 0]
    IN  IF Len(v) > 2 * size \/ size + Len(b) > 2 * size
        THEN Throw(h, "RangeError")
        ELSE Return([h EXCEPT !.map = [m EXCEPT
                        !.buffer = array,
                        !.map = [off |-> 0, len |-> size],
                        !.tileBehaviors = [off |-> size, len |-> size]]],
                    <<>>)

setData(h, v, b) ==
    LET m == h.map
        size == m.numCols * m.numRows
        array == [k \in 1..(2 * size) |->
                    IF k - size >= 1 /\ k - size <= Len(b)
                    THEN Bytes(b)[k - size]
                    ELSE IF k <= Len(v) THEN Bytes(v)[k] ELSE 0]
    IN  IF Len(v) > 2 * size \/ size + Len(b) > 2 * size
        THEN Throw(h, "RangeError")
        ELSE Return([h EXCEPT !.map = [m EXCEPT
                        !.buffer = array,
                        !.map = [off |-> 0, len |-> size],
                        !.tileBehaviors = [off |-> size, len |-> size]]],
                    <<>>)

\* undefined stored in a Uint8Array is 0
ToByte(value) == IF value = Undefined THEN 0 ELSE value

resize(h, direction, newWidth, newHeight) ==
    LET m == h.map
        numCols == TruncDiv(newWidth, m.tileWidth)
        numRows == TruncDiv(newHeight, m.tileHeight)
        diffRows == numRows - m.numRows
        oldBlockX == TruncDiv(m.width, m.viewportW)
        newBlockY == TruncDiv(newHeight, m.viewportH)
        newBlocksY == newBlockY - TruncDiv(m.height, m.viewportH)
        size == numRows * numCols
        \* the cells the two loops copy, at the same index in the new planes
        copied == {y * numCols + x : y \in diffRows..(numRows - 1),
                                     x \in 0..(m.numCols - 1)}
        buffer == [k \in 1..(2 * size) |->
                     IF k - 1 \in copied /\ k - 1 < size
                     THEN ToByte(Get(m.buffer, m.map, k - 1))
                     ELSE IF k - 1 - size \in copied /\ k - 1 - size < size
                     THEN ToByte(Get(m.buffer, m.tileBehaviors, k - 1 - size))
                     ELSE 0]
        triggers == [k \in copied \cap DOMAIN m.triggers |-> m.triggers[k]]
        blocks == {y * oldBlockX + x : y \in newBlocksY..(newBlockY - 1),
                                       x \in 0..(oldBlockX - 1)}
        itemBlocks == [w \in blocks \cap DOMAIN m.windows |->
                          [displayed |-> FALSE]]
        h1 == setBuffer(h, buffer)
    IN  IF direction # "bottomleft"
        THEN Throw(h, "resize not supported for direction")
        ELSE IF h1.result.thrown # ""
        THEN h1
        ELSE Return([h1 EXCEPT !.map = [h1.map EXCEPT
                        !.width = newWidth, !.height = newHeight,
                        !.triggers = triggers,
                        !.numCols = numCols, !.numRows = numRows,
                        !.numViewportCols = Ceil(m.viewportW, m.tileWidth),
                        !.numViewportRows = Ceil(m.viewportH, m.tileHeight),
                        !.windows = itemBlocks]],
                    <<>>)

----------------------------------------------------------------------------
(* Collision queries *)

\* the call never returns
Hang(h) == [h EXCEPT !.result = [thrown |-> "never returns", ret |-> <<>>]]

fallTest(h, x, y) ==
    LET m == h.map
        pos == getTileIndexFromPixel(m, x, y)
    IN  Return(h, Get(m.buffer, m.tileBehaviors, pos.x + pos.y * m.numCols)
                    = WALL)

\* the first cell of the loops (columns outside, rows inside) that carries
\* types, or false
hitObjectTest(h, x, y, x2, y2, types) ==
    LET m == h.map
        pos1 == getTileIndexFromPixel(m, x, y)
        pos2 == getTileIndexFromPixel(m, x2, y)
        pos3 == getTileIndexFromPixel(m, x, y2)
        cells == ColumnMajor(pos1.x, pos2.x, pos1.y, pos3.y)
        Match(c) == Get(m.buffer, m.tileBehaviors, c.j * m.numCols + c.i)
                      = types
        found == SelectSeq(cells, Match)
    IN  IF found = <<>>
        THEN Return(h, [hit |-> FALSE, x |-> 0, y |-> 0])
        ELSE Return(h, [hit |-> TRUE, x |-> found[1].i, y |-> found[1].j])

\* matrixWidth / tileWidth and buffer.length / cols are real divisions: the
\* loops run while i < rows and j < cols, and buffer[i * cols + j] is
\* undefined unless the index is a whole number below buffer.length.  The
\* value returned is given by its truthiness.
checkMatrixForCollision(h, buffer, matrixWidth, x, y, behavior) ==
    LET m == h.map
        tw == m.tileWidth
        is == 0..(Ceil(Len(buffer) * tw, matrixWidth) - 1)
        js == 0..(Ceil(matrixWidth, tw) - 1)
        On(i, j) ==
            /\ (i * matrixWidth) % tw = 0
            /\ (i * matrixWidth) \div tw + j < Len(buffer)
            /\ buffer[(i * matrixWidth) \div tw + j + 1] # 0
    IN  Return(h, \E i \in is, j \in js :
                     /\ On(i, j)
                     /\ getTileBehaviorAtIndex(m, x + j, y + i) = behavior)

\* one pass of the for loop of setNextX: a row from the one of startY down,
\* as long as its top is above spriteYMax, carries tileTypes in column col
ColumnHas(m, col, startY, spriteYMax, tileTypes) ==
    LET row0 == TruncDiv(startY, m.tileHeight)
    IN  \E row \in row0..(row0 + m.numRows + 1) :
            /\ \A r \in row0..row : r * m.tileHeight < spriteYMax
            /\ Get(m.buffer, m.tileBehaviors, row * m.numCols + col)
                 = tileTypes

\* the while loop of setNextX from the state (startX, minX) on, tilePos being
\* the tile of (startX, startY) at the top of each pass.  It gives found and
\* minX at the exit; or hangs: a pass that leaves startX and minX as they
\* were repeats for ever, and so do the passes on columns to the right of
\* every byte of the plane, where minX stays at tileWidth
RECURSIVE setNextXLoop(_, _, _, _, _, _, _, _)
setNextXLoop(m, left, vx, startY, spriteYMax, tileTypes, startX, minX) ==
    LET col == TruncDiv(startX, m.tileWidth)
        found == ColumnHas(m, col, startY, spriteYMax, tileTypes)
        col1 == IF found \/ left THEN col ELSE col + 1
        minX1 == IF found THEN minX
                 ELSE col1 * m.tileWidth - startX
        startX1 == IF left THEN col1 * m.tileWidth - 1
                   ELSE col1 * m.tileWidth
        again == ~found /\ ((left /\ minX1 >= vx) \/ (~left /\ minX1 <= vx))
    IN  IF ~again
        THEN [hangs |-> FALSE, found |-> found, minX |-> minX1]
        ELSE IF (startX1 = startX /\ minX1 = minX)
                  \/ (~left /\ col1 > Len(m.buffer) /\ startY >= 0
                        /\ startX = col * m.tileWidth)
        THEN [hangs |-> TRUE, found |-> FALSE, minX |-> minX1]
        ELSE setNextXLoop(m, left, vx, startY, spriteYMax, tileTypes,
                          startX1, minX1)

\* setNextX(sprite, tileTypes), sprite being the drawable id with velocity vx
\* and hit-box hitBox
setNextX(h, id, vx, hitBox, tileTypes) ==
    LET m == h.map
        sprite == h.sprites[id]
        left == ~(vx > 0)
        spriteYMax == sprite.y + hitBox.y2
        startX == IF left THEN sprite.x + hitBox.x - 1
                  ELSE sprite.x + hitBox.x2 + 1
        startY == sprite.y + hitBox.y
        minX == IF left THEN startX ELSE 0
        enters == (left /\ minX >= vx) \/ (~left /\ minX <= vx)
        loop == IF enters
                THEN setNextXLoop(m, left, vx, startY, spriteYMax, tileTypes,
                                  startX, minX)
                ELSE [hangs |-> FALSE, found |-> FALSE, minX |-> minX]
    IN  IF loop.hangs
        THEN Hang(h)
        ELSE IF (left /\ vx >= loop.minX) \/ (~left /\ vx < loop.minX)
        THEN Return([h EXCEPT !.sprites[id].x = @ + vx], FALSE)
        ELSE Return([h EXCEPT !.sprites[id].x = @ + loop.minX], TRUE)

----------------------------------------------------------------------------
(* The maps the model is run on: the options given to new Map() *)

Enemy == [master |-> FALSE, collideGroup |-> 1, movable |-> FALSE]

\* 6 x 4 tiles of 50 x 50, a viewport of 100 x 100: 3 x 2 windows
Small(triggers, windows) ==
    [width |-> 300, height |-> 200, tileWidth |-> 50, tileHeight |-> 50,
     viewportW |-> 100, viewportH |-> 100, viewportX |-> 0, viewportY |-> 0,
     startX |-> 0, startY |-> 0, tiles |-> 1,
     triggers |-> triggers, windows |-> windows, buffer |-> Zeros(48)]

\* 4 x 2 tiles of 307 x 230, a viewport of 614 x 460: 2 x 1 windows
Wide(triggers, windows) ==
    [width |-> 1228, height |-> 460, tileWidth |-> 307, tileHeight |-> 230,
     viewportW |-> 614, viewportH |-> 460, viewportX |-> 0, viewportY |-> 0,
     startX |-> 300, startY |-> 100, tiles |-> 1,
     triggers |-> triggers, windows |-> windows, buffer |-> Zeros(16)]

NoWindows == [w \in {} |-> [items |-> <<>>]]

\* where the player's own update() may put it: inside the world, hit-box included
PlayerPositions(m) ==
    IF m.width = 300
    THEN {[x |-> 0, y |-> 0], [x |-> 120, y |-> 60], [x |-> 230, y |-> 150]}
    ELSE {[x |-> 300, y |-> 100], [x |-> 400, y |-> 100],
          [x |-> 1000, y |-> 100]}

\* the arguments the scene gives to moveTo and setViewPort
MoveTargets(m) ==
    {[x |-> -(m.xMax + 57), y |-> 0], [x |-> -m.viewportW, y |-> -(m.yMax + 57)],
     [x |-> 57, y |-> 0], [x |-> 0, y |-> 57], [x |-> 0, y |-> 0]}

\* the positions the scene gives to setViewPort: inside the map, on a window
\* or between two windows
ViewPorts(m) ==
    {[x |-> 0, y |-> 0], [x |-> -m.viewportW, y |-> 0],
     [x |-> -(m.viewportW \div 2), y |-> 0], [x |-> -m.xMax, y |-> -m.yMax]}

Tick == Duration \div 2

\* 2 x 3 tiles of 10 x 10 with the given buffer, a viewport of 20 x 10
Tiny(buffer) ==
    [width |-> 20, height |-> 30, tileWidth |-> 10, tileHeight |-> 10,
     viewportW |-> 20, viewportH |-> 10, viewportX |-> 0, viewportY |-> 0,
     startX |-> 0, startY |-> 0, tiles |-> 1,
     triggers |-> {3}, windows |-> NoWindows, buffer |-> buffer]

\* a buffer of Tiny's size: six visual bytes, then six behavior bytes
TinyBuffer == <<11, 12, 13, 14, 15, 16, AIR, WALL, AIR, AIR, WALL, AIR>>

\* buffers of other sizes: one plane only, a byte short, two bytes long, and
\* shorter than one plane
OtherBuffers ==
    {SubSeq(TinyBuffer, 1, 6), SubSeq(TinyBuffer, 1, 11),
     TinyBuffer \o <<9, 9>>, SubSeq(TinyBuffer, 1, 4)}

\* a buffer of the size of map m with other bytes
FreshBuffer(m) ==
    [k \in 1..(2 * m.numCols * m.numRows) |->
        IF k <= m.numCols * m.numRows THEN 20 + k ELSE 1 + (k % 2)]

\* the planes the scene gives to setData
DataPlanes(m) ==
    LET n == m.numCols * m.numRows
    IN  {[v |-> [i \in 1..n |-> 30 + i], b |-> [i \in 1..n |-> 1 + (i % 2)]],
         [v |-> [i \in 1..n |-> 255], b |-> [i \in 1..n |-> 0]],
         [v |-> <<41>>, b |-> <<WALL, WALL>>]}

\* the edits the scene makes with updateTile: <<tileNum, behavior>>
TileEdits == {<<-1, -1>>, <<-1, WALL>>, <<7, -1>>, <<-1, 255>>}

\* the arguments of shift: <<startLine, height>>
Shifts == {<<1, 1>>, <<1, 2>>, <<2, 1>>, <<2, 2>>}

\* the tile the scene asks for in the new lines
NewLineTiles == {7}

\* 4 x 4 tiles of 10 x 10, Wall on the cells <<col, row>> of walls and Air
\* elsewhere, a trigger on cell (0, 1)
Room(walls) ==
    [width |-> 40, height |-> 40, tileWidth |-> 10, tileHeight |-> 10,
     viewportW |-> 40, viewportH |-> 40, viewportX |-> 0, viewportY |-> 0,
     startX |-> 0, startY |-> 0, tiles |-> 1,
     triggers |-> {4}, windows |-> NoWindows,
     buffer |-> [k \in 1..32 |->
                   IF k <= 16 THEN 0
                   ELSE IF <<(k - 17) % 4, (k - 17) \div 4>> \in walls
                   THEN WALL ELSE AIR]]

WallLayouts ==
    {{}, {<<2, 1>>}, {<<3, 1>>}, {<<0, 1>>}, {<<0, 1>>, <<1, 0>>},
     {<<0, 2>>}, {<<1, 1>>, <<2, 2>>}}

\* the entities whose move the scene resolves: position, velocity, hit-box
EntityXs == {0, 10, 20, 30}
EntityYs == {10, 15}
Velocities == {-25, -5, 0, 5, 12, 25}
HitBoxes == {[x |-> 0, y |-> 0, x2 |-> 9, y2 |-> 10],
             [x |-> 2, y |-> 0, x2 |-> 7, y2 |-> 9]}

\* the rectangles tested: <<x, y, x2, y2>>
Rectangles ==
    {<<0, 0, 19, 19>>, <<5, 5, 14, 14>>, <<0, 10, 39, 19>>, <<0, 0, 39, 39>>,
     <<30, 0, 45, 9>>, <<40, 0, 49, 9>>}

\* the stamps overlaid: the cells, row after row, and the width in pixels
Stamps ==
    {[buffer |-> <<1>>, matrixWidth |-> 10],
     [buffer |-> <<1, 1>>, matrixWidth |-> 20],
     [buffer |-> <<1, 1>>, matrixWidth |-> 10],
     [buffer |-> <<0, 1, 1, 0>>, matrixWidth |-> 20],
     [buffer |-> <<0, 0>>, matrixWidth |-> 20]}

\* drawables of each collision group; the enemy Enemy does not move
Walker == [master |-> FALSE, collideGroup |-> 1, movable |-> TRUE]
Bullet == [master |-> FALSE, collideGroup |-> 2, movable |-> TRUE]
Platform == [master |-> FALSE, collideGroup |-> 3, movable |-> TRUE]

\* the small map, its one window listing the drawables the scene works with
Arena == Small({}, [w \in {0} |->
                      [items |-> <<Walker, Bullet, Platform, Enemy>>]])

\* the drawables of the map's options
Drawables(m) ==
    {<<w, k>> : w \in DOMAIN m.options.windows, k \in 1..4}
      \cap {<<w, k>> \in (DOMAIN m.options.windows) \X (1..4) :
              k <= Len(m.options.windows[w].items)}

\* what the update() methods do in one frame: nothing, or one movable
\* drawable on the map removes itself or another drawable
Scripts(m) ==
    {<<>>} \cup {a :> t : a \in {d \in Range(m.objects) \cup Range(m.platforms) :
                                   Attr(m.options, d).movable},
                          t \in Range(m.objects)}

----------------------------------------------------------------------------
(* The InputManager: key states, and the recording and playback of them *)

\* the keyCodes of InputManager.keys that nextRecordedEvents resets
StandardKeys == {38, 40, 37, 39, 32, 13, 27, 17}

\* the keys the player presses: LEFT and RIGHT
TypedKeys == {37, 39}

\* The object InputManager.keyPressed refers to: its own one (ref = 0, the
\* properties in obj) or, after nextRecordedEvents, the snapshot
\* recordedEvents[ref] itself.  latches is the set of keys whose latch is
\* true.  `played` is a ghost: the number of nextRecordedEvents() calls
\* since the last playRecordedEvents() that started a playback.
\* keyCb maps a property name to the lists of callbacks installed under it.
\* The browser's side: gamepads (navigator.getGamepads() lists a pad), buttons
\* (the buttons of the pad that are pressed), frames (the handles of the
\* pending requestAnimationFrame() callbacks, all of them _pollGamepad),
\* nextFrame (the handle the next request gets) and held (the keys of the
\* keyboard that are down).  Ghosts: fired (the callbacks the last key event
\* invoked), thrown (the error of the last call) and consumed (the keys read
\* as pressed with a latch since their key or button went down, in the
\* input mode of that read).
InputManager ==
    [recording |-> FALSE, playingEvents |-> FALSE, playingPos |-> 0,
     playPos |-> Undefined,
     recordedEvents |-> <<>>,
     keyPressed |-> [ref |-> 0, obj |-> <<>>],
     latches |-> {},
     inputMode |-> "keyboard",
     played |-> 0,
     pad |-> FALSE,
     gamepadSupport |-> FALSE,
     jPollInterval |-> 0,
     keyCb |-> <<>>,
     enabled |-> TRUE,
     fired |-> <<>>,
     thrown |-> "",
     gamepads |-> FALSE,
     buttons |-> {},
     frames |-> {},
     nextFrame |-> 1,
     held |-> {},
     consumed |-> {}]

\* the properties of this.keyPressed
KeyPressed(this) ==
    IF this.keyPressed.ref = 0 THEN this.keyPressed.obj
    ELSE this.recordedEvents[this.keyPressed.ref]

\* this.keyPressed[key] = value
SetKeyPressed(this, key, value) ==
    IF this.keyPressed.ref = 0
    THEN [this EXCEPT !.keyPressed.obj = (key :> value) @@ @]
    ELSE [this EXCEPT !.recordedEvents[this.keyPressed.ref] =
                          (key :> value) @@ @]

\* JSON.parse(JSON.stringify(obj)) of an object of booleans: a new object
\* with the same properties
JsonCopy(obj) == [key \in DOMAIN obj |-> obj[key]]

\* recordedEvents.length = 0 empties the array; an object keyPressed refers to
\* lives on as keyPressed's own
startRecordingEvents(this) ==
    IF ~this.recording
    THEN [this EXCEPT !.keyPressed = [ref |-> 0, obj |-> KeyPressed(this)],
                      !.recordedEvents = <<>>,
                      !.recording = TRUE]
    ELSE this

stopRecordingEvents(this) == [this EXCEPT !.recording = FALSE]

playRecordedEvents(this) ==
    IF ~this.playingEvents
    THEN [this EXCEPT !.playingEvents = TRUE, !.playPos = 0, !.played = 0]
    ELSE this

nextRecordedEvents(this) ==
    IF this.playingPos >= Len(this.recordedEvents)
    THEN [this EXCEPT
            !.playingEvents = FALSE,
            !.keyPressed = [ref |-> 0,
                            obj |-> [key \in StandardKeys |-> FALSE]],
            !.played = @ + 1]
    ELSE [this EXCEPT
            !.keyPressed = [ref |-> this.playingPos + 1, obj |-> <<>>],
            !.playingPos = @ + 1,
            !.played = @ + 1]

recordEvents(this) ==
    [this EXCEPT !.recordedEvents = Append(@, JsonCopy(KeyPressed(this)))]

\* InputManager.keys
keys ==
    [name \in {"UP", "DOWN", "LEFT", "RIGHT", "SPACE", "ENTER", "ESCAPE",
               "CTRL"} |->
        CASE name = "UP" -> 38
          [] name = "DOWN" -> 40
          [] name = "LEFT" -> 37
          [] name = "RIGHT" -> 39
          [] name = "SPACE" -> 32
          [] name = "ENTER" -> 13
          [] name = "ESCAPE" -> 27
          [] name = "CTRL" -> 17]

\* The name of the property that obj[keyCode] reads and writes: the keyCode
\* as a string.  The properties of keyCb are named by strings, since
\* installKeyCallback and removeKeyCallback index it with a keyCode, with
\* the name of a key and with undefined.
PropertyName(keyCode) ==
    CASE keyCode = 38 -> "38"
      [] keyCode = 40 -> "40"
      [] keyCode = 37 -> "37"
      [] keyCode = 39 -> "39"
      [] keyCode = 32 -> "32"
      [] keyCode = 13 -> "13"
      [] keyCode = 27 -> "27"
      [] keyCode = 17 -> "17"

\* the keydown listener of _installKBEventHandlers, with no callback
\* installed for the key
keydown(this, keyCode) ==
    IF this.inputMode # "keyboard" \/ this.playingEvents THEN this
    ELSE LET pressed == IF keyCode \notin this.latches
                        THEN SetKeyPressed(this, keyCode, TRUE)
                        ELSE this
         IN  IF this.enabled /\ PropertyName(keyCode) \in DOMAIN this.keyCb
             THEN [pressed EXCEPT
                      !.fired = this.keyCb[PropertyName(keyCode)].down]
             ELSE pressed

\* the keyup listener
keyup(this, keyCode) ==
    IF this.inputMode # "keyboard" \/ this.playingEvents THEN this
    ELSE LET released == [SetKeyPressed(this, keyCode, FALSE)
                            EXCEPT !.latches = @ \ {keyCode}]
         IN  IF this.enabled /\ PropertyName(keyCode) \in DOMAIN this.keyCb
             THEN [released EXCEPT
                      !.fired = this.keyCb[PropertyName(keyCode)].up]
             ELSE released

\* what getKeyStatus(key, latch) returns, padPressed being empty
KeyStatus(this, key) ==
    IF key \in DOMAIN KeyPressed(this) THEN KeyPressed(this)[key] ELSE FALSE

getKeyStatus(this, key, latch) ==
    IF KeyStatus(this, key) /\ latch
    THEN [SetKeyPressed(this, key, FALSE) EXCEPT !.latches = @ \cup {key}]
    ELSE this

\* a key given by a name of InputManager.keys or, as "37", by its keyCode:
\* this.keys[key] is undefined for a key that is not a name, and
\* keyCb[undefined] is the property "undefined"
installKeyCallback(this, key, event, callback) ==
    LET keyCode == IF key \in DOMAIN keys THEN PropertyName(keys[key])
                   ELSE "undefined"
        made == IF keyCode \in DOMAIN this.keyCb THEN this.keyCb
                ELSE (keyCode :> [up |-> <<>>, down |-> <<>>]) @@ this.keyCb
    IN  [this EXCEPT
            !.keyCb = [made EXCEPT ![keyCode][event] = Append(@, callback)]]

\* this.keyCb[key] is undefined when nothing is stored under the property
\* `key`, and reading [event] of it throws
removeKeyCallback(this, key, event, callback) ==
    IF key \notin DOMAIN this.keyCb
    THEN [this EXCEPT !.thrown = "TypeError"]
    ELSE LET index == IndexOf(this.keyCb[key][event], callback)
         IN  IF index > 0
             THEN [this EXCEPT !.keyCb[key][event] = Splice(@, index)]
             ELSE this

\* keyPressed[key] = false and latches[key] = false, for each key of keyList
RECURSIVE Released(_, _)
Released(this, keyList) ==
    IF keyList = {} THEN this
    ELSE LET key == CHOOSE k \in keyList : TRUE
         IN  Released([SetKeyPressed(this, key, FALSE)
                          EXCEPT !.latches = @ \ {key}],
                      keyList \ {key})

_resetKeys(this) == Released(this, DOMAIN KeyPressed(this))

\* the browser's requestAnimationFrame(this._pollGamepad.bind(this)): the
\* callback is pending under a new handle
requestAnimationFrame(this) ==
    [this EXCEPT !.frames = @ \cup {this.nextFrame}, !.nextFrame = @ + 1]

\* cancelAnimationFrame(handle) takes a pending callback off, and does
\* nothing for a handle whose callback ran
_clearJoystickPoll(this) ==
    IF this.jPollInterval # 0
    THEN [this EXCEPT !.frames = @ \ {this.jPollInterval},
                      !.jPollInterval = 0]
    ELSE this

\* no virtual joystick is installed (dPadJoystick is null); the handle of
\* the request made for 'gamepad' is not kept
setInputMode(this, mode) ==
    IF this.inputMode = mode THEN this
    ELSE LET switched ==
                 CASE mode = "keyboard" -> _clearJoystickPoll(this)
                   [] mode = "gamepad" ->
                          requestAnimationFrame(_clearJoystickPoll(this))
                   [] OTHER -> this
         IN  [_resetKeys(switched) EXCEPT !.inputMode = mode]

\* the first pad of navigator.getGamepads(), when there is one; the timeout
\* that calls it again is pending as long as gamepadSupport is false
_pollNewGamepad(this) ==
    IF this.gamepads
    THEN LET found == [this EXCEPT !.pad = TRUE]
         IN  IF ~this.gamepadSupport
             THEN setInputMode([found EXCEPT !.gamepadSupport = TRUE],
                               "gamepad")
             ELSE found
    ELSE this

\* this.pad.buttons[b].pressed
Pressed(this, b) == b \in this.buttons

Unlatch(this, key) == [this EXCEPT !.latches = @ \ {key}]

\* the UP and DOWN buttons of the pad
PollUpDown(this) ==
    IF Pressed(this, 12) /\ keys["UP"] \notin this.latches
    THEN SetKeyPressed(SetKeyPressed(this, keys["UP"], TRUE), keys["DOWN"], FALSE)
    ELSE IF Pressed(this, 13) /\ keys["DOWN"] \notin this.latches
    THEN SetKeyPressed(SetKeyPressed(Unlatch(this, keys["UP"]), keys["DOWN"], TRUE), keys["UP"], FALSE)
    ELSE SetKeyPressed(SetKeyPressed(Unlatch(Unlatch(this, keys["UP"]), keys["DOWN"]),
                                     keys["DOWN"], FALSE), keys["UP"], FALSE)

\* the RIGHT and LEFT buttons
PollLeftRight(this) ==
    IF Pressed(this, 15) /\ keys["RIGHT"] \notin this.latches
    THEN SetKeyPressed(SetKeyPressed(this, keys["RIGHT"], TRUE), keys["LEFT"], FALSE)
    ELSE IF Pressed(this, 14)
    THEN SetKeyPressed(SetKeyPressed(Unlatch(this, keys["RIGHT"]), keys["LEFT"], TRUE), keys["RIGHT"], FALSE)
    ELSE SetKeyPressed(SetKeyPressed(Unlatch(Unlatch(this, keys["RIGHT"]), keys["LEFT"]),
                                     keys["LEFT"], FALSE), keys["RIGHT"], FALSE)

\* a face button b of the pad, read as key
PollFace(this, b, key) ==
    IF Pressed(this, b) /\ key \notin this.latches
    THEN SetKeyPressed(this, key, TRUE)
    ELSE IF ~Pressed(this, b)
    THEN SetKeyPressed(Unlatch(this, key), key, FALSE)
    ELSE this

\* the callback of requestAnimationFrame: without a pad, this.pad.buttons
\* throws before the next frame is requested
_pollGamepad(this) ==
    LET polled == _pollNewGamepad(this)
    IN  IF ~polled.pad
        THEN [polled EXCEPT !.thrown = "TypeError"]
        ELSE LET read == PollFace(PollFace(PollLeftRight(PollUpDown(polled)),
                                           0, keys["SPACE"]),
                                  1, keys["CTRL"])
             IN  [requestAnimationFrame(read)
                     EXCEPT !.jPollInterval = read.nextFrame]

----------------------------------------------------------------------------
(* The calls of the scene *)

InitWith(optionSet) ==
    /\ \E o \in optionSet :
          /\ map = Map(o)
          /\ result = construct(o).result
          /\ spawned = [w \in DOMAIN o.windows |-> 0]
    /\ sprites = [id \in {Player} |-> [x |-> 0, y |-> 0]]
    /\ clock = 0
    /\ lastOp = [name |-> "new", x |-> 0, y |-> 0, args |-> <<>>]
    /\ called = <<>>
    /\ dispatched = <<>>
    /\ request = [x |-> 0, y |-> 0]
    /\ edits = 0
    /\ updated = <<>>
    /\ input = InputManager

\* the state after a call that ended with heap h
CommitArgs(h, name, x, y, args) ==
    /\ UNCHANGED input
    /\ result' = h.result
    /\ edits' = h.edits
    /\ updated' = h.updated
    /\ map' = h.map
    /\ sprites' = h.sprites
    /\ called' = h.called
    /\ dispatched' = h.dispatched
    /\ spawned' = h.spawned
    /\ request' = h.request
    /\ lastOp' = [name |-> name, x |-> x, y |-> y, args |-> args]

Commit(h, name, x, y) == CommitArgs(h, name, x, y, <<x, y>>)

CallMoveTo ==
    \E t \in MoveTargets(map) :
        /\ Commit(moveTo(Heap, t.x, t.y, clock), "moveTo", t.x, t.y)
        /\ UNCHANGED clock

\* the easing function is called in the frames of a scroll, and the player's
\* update() when the player is on the map
CallUpdate ==
    \E dt \in {0, Tick, 2 * Tick},
       ease \in IF map.moving THEN 0..EaseDen ELSE {0},
       answers \in [DOMAIN map.triggers -> BOOLEAN],
       pos \in IF Player \in Range(map.objects)
               THEN PlayerPositions(map) ELSE {sprites[Player]} :
        /\ clock + dt <= MaxTicks * Tick
        /\ clock' = clock + dt
        /\ Commit(update(Heap, clock + dt, ease, answers, pos), "update", 0, 0)

\* the scene adds the player's sprite, once per life of the registry
CallAddObject ==
    /\ Player \notin Range(map.objects)
    /\ Commit(addObject(Heap, Player), "addObject", 0, 0)
    /\ UNCHANGED clock

\* what of the map was in use when reset() was called
InUse(m) ==
    [objects |-> m.objects # <<>>,
     master |-> m.masterObject # NoObject,
     displayed |-> \E w \in DOMAIN m.windows : m.windows[w].displayed,
     triggered |-> \E k \in DOMAIN m.triggers : m.triggers[k].triggered,
     scrolled |-> m.viewportX # m.options.viewportX,
     offset |-> m.tileOffsetX # 0 \/ m.tileOffsetY # 0,
     drawn |-> ~m.isDirty]

CallReset ==
    /\ CommitArgs(reset(Heap), "reset", 0, 0, <<InUse(map)>>)
    /\ UNCHANGED clock

\* the scene keeps the viewport it sets inside the map
CallSetViewPort ==
    \E t \in ViewPorts(map) :
        /\ Commit(setViewPort(Heap, t.x, t.y, map.viewportW, map.viewportH),
                  "setViewPort", t.x, t.y)
        /\ UNCHANGED clock

CallDraw ==
    \E showHidden \in BOOLEAN,
       resource \in IF map.srcBitmap THEN {TRUE} ELSE BOOLEAN :
        /\ CommitArgs(draw(Heap, showHidden, resource), "draw", 0, 0,
                      <<resource>>)
        /\ UNCHANGED clock

CallCheckVisibleWindows ==
    /\ Commit(checkVisibleWindows(Heap), "checkVisibleWindows", 0, 0)
    /\ UNCHANGED clock

\* a call that writes the grid
Edit(h) == [h EXCEPT !.edits = @ + 1]

CallUpdateTile ==
    \E col \in 0..(map.numCols - 1), row \in 0..(map.numRows - 1),
       e \in TileEdits :
        /\ edits < MaxEdits
        /\ CommitArgs(updateTile(Edit(Heap), col, row, e[1], e[2]),
                      "updateTile", col, row, e)
        /\ UNCHANGED clock

CallClear ==
    \E e \in {<<0, AIR>>, <<7, WALL>>} :
        /\ edits < MaxEdits
        /\ CommitArgs(clear(Edit(Heap), e[1], e[2]), "clear", 0, 0, e)
        /\ UNCHANGED clock

CallShift ==
    \E e \in Shifts, tile \in NewLineTiles :
        /\ edits < MaxEdits
        /\ CommitArgs(shift(Edit(Heap), e[1], e[2], tile), "shift", 0, 0,
                      <<e[1], e[2], tile>>)
        /\ UNCHANGED clock

CallSetData ==
    \E d \in DataPlanes(map) :
        /\ edits < MaxEdits
        /\ CommitArgs(setData(Edit(Heap), d.v, d.b), "setData", 0, 0,
                      <<d.v, d.b>>)
        /\ UNCHANGED clock

CallSetBuffer(buffers) ==
    \E buffer \in buffers :
        /\ edits < MaxEdits
        /\ CommitArgs(setBuffer(Edit(Heap), buffer), "setBuffer", 0, 0,
                      <<buffer>>)
        /\ UNCHANGED clock

CallResize ==
    \E direction \in {"bottomleft", "topleft"} :
        /\ edits < MaxEdits
        /\ CommitArgs(resize(Edit(Heap), direction, map.width,
                             map.height + map.tileHeight),
                      "resize", map.width, map.height + map.tileHeight,
                      <<direction>>)
        /\ UNCHANGED clock

CallSetNextX ==
    \E x \in EntityXs, y \in EntityYs, vx \in Velocities, hitBox \in HitBoxes :
        LET h == [Heap EXCEPT !.sprites[Player] = [x |-> x, y |-> y]]
        IN  /\ CommitArgs(setNextX(h, Player, vx, hitBox, WALL), "setNextX",
                          x, y, <<x, y, vx, hitBox>>)
            /\ UNCHANGED clock

CallHitObjectTest ==
    \E r \in Rectangles :
        /\ CommitArgs(hitObjectTest(Heap, r[1], r[2], r[3], r[4], WALL),
                      "hitObjectTest", r[1], r[2], r)
        /\ UNCHANGED clock

CallCheckMatrixForCollision ==
    \E stamp \in Stamps, x \in 0..3, y \in 0..3 :
        /\ CommitArgs(checkMatrixForCollision(Heap, stamp.buffer,
                                              stamp.matrixWidth, x, y, WALL),
                      "checkMatrixForCollision", x, y, <<stamp>>)
        /\ UNCHANGED clock

CallFallTest ==
    \E x \in {5, 25, 45}, y \in {15, 25, 45} :
        /\ CommitArgs(fallTest(Heap, x, y), "fallTest", x, y, <<x, y>>)
        /\ UNCHANGED clock

CallGetTileBehaviorAtIndex ==
    \E col \in 0..4, row \in 0..4 :
        /\ CommitArgs(Return(Heap, getTileBehaviorAtIndex(map, col, row)),
                      "getTileBehaviorAtIndex", col, row, <<col, row>>)
        /\ UNCHANGED clock

CallGetTriggersForBox ==
    \E r \in Rectangles :
        /\ CommitArgs(Return(Heap, getTriggersForBox(map, r[1], r[2], r[3],
                                                     r[4])),
                      "getTriggersForBox", r[1], r[2], r)
        /\ UNCHANGED clock

\* the scene adds a drawable that is not on the map
CallAddDrawable ==
    \E obj \in Drawables(map) \ Range(map.objects) :
        /\ Len(addObject(Heap, obj).map.platforms) <= MaxPlatforms
        /\ CommitArgs(addObject(Heap, obj), "addObject", 0, 0, <<obj>>)
        /\ UNCHANGED clock

CallRemoveObject ==
    \E obj \in Drawables(map) \cup Range(map.objects) :
        /\ CommitArgs(removeObject(Heap, obj), "removeObject", 0, 0, <<obj>>)
        /\ UNCHANGED clock

CallSetMasterObject ==
    \E obj \in Range(map.objects) :
        /\ CommitArgs(setMasterObject(Heap, obj), "setMasterObject", 0, 0,
                      <<obj>>)
        /\ UNCHANGED clock

\* a frame in which the update() of a drawable may remove a drawable
CallUpdateFrame ==
    \E script \in Scripts(map) :
        /\ clock + Tick <= MaxTicks * Tick
        /\ clock' = clock + Tick
        /\ CommitArgs(update([Heap EXCEPT !.script = script], clock + Tick, 0,
                             [k \in DOMAIN map.triggers |-> FALSE],
                             sprites[Player]),
                      "update", 0, 0, <<script, map.objects>>)

\* a frame in which the master's update() leaves it where it is
CallFollowFrame ==
    \E dt \in {0, Tick, 2 * Tick},
       ease \in IF map.moving THEN 0..EaseDen ELSE {0} :
        /\ clock + dt <= MaxTicks * Tick
        /\ clock' = clock + dt
        /\ CommitArgs(update(Heap, clock + dt, ease,
                             [k \in DOMAIN map.triggers |-> FALSE],
                             sprites[Player]),
                      "update", 0, 0, <<dt, ease>>)

\* the state after a call on the InputManager that left it as `this`
CommitInput(this, name, args, ret) ==
    /\ input' = this
    /\ lastOp' = [name |-> name, x |-> 0, y |-> 0, args |-> args]
    /\ result' = [thrown |-> this.thrown, ret |-> ret]
    /\ UNCHANGED <<map, sprites, called, dispatched, spawned, request,
                   edits, updated>>

\* the InputManager when a call or an event starts
Listening == [input EXCEPT !.fired = <<>>, !.thrown = ""]

CallStartRecordingEvents ==
    /\ CommitInput(startRecordingEvents(input), "startRecordingEvents",
                   <<>>, <<>>)
    /\ UNCHANGED clock

CallStopRecordingEvents ==
    /\ input.recording
    /\ CommitInput(stopRecordingEvents(input), "stopRecordingEvents", <<>>, <<>>)
    /\ UNCHANGED clock

\* the game loop records the frame while a recording is on
CallRecordEvents ==
    /\ input.recording
    /\ Len(input.recordedEvents) < MaxSnapshots
    /\ CommitInput(recordEvents(input), "recordEvents", <<>>, <<>>)
    /\ UNCHANGED clock

CallPlayRecordedEvents ==
    /\ CommitInput(playRecordedEvents(input), "playRecordedEvents", <<>>, <<>>)
    /\ UNCHANGED clock

\* the game loop takes the next frame while a playback is on
CallNextRecordedEvents ==
    /\ input.playingEvents
    /\ CommitInput(nextRecordedEvents(input), "nextRecordedEvents", <<>>, <<>>)
    /\ UNCHANGED clock

KeyDown ==
    \E keyCode \in TypedKeys :
        /\ CommitInput(keydown(input, keyCode), "keydown", <<keyCode>>, <<>>)
        /\ UNCHANGED clock

KeyUp ==
    \E keyCode \in TypedKeys :
        /\ CommitInput(keyup(input, keyCode), "keyup", <<keyCode>>, <<>>)
        /\ UNCHANGED clock

CallGetKeyStatus ==
    \E key \in TypedKeys, latch \in BOOLEAN :
        /\ CommitInput(getKeyStatus(input, key, latch), "getKeyStatus",
                       <<key, latch>>, KeyStatus(input, key))
        /\ UNCHANGED clock

\* the button of the pad that _pollGamepad reads for a key
PolledButton(key) ==
    CASE key = keys["UP"] -> 12
      [] key = keys["DOWN"] -> 13
      [] key = keys["LEFT"] -> 14
      [] key = keys["RIGHT"] -> 15
      [] key = keys["SPACE"] -> 0
      [] key = keys["CTRL"] -> 1

\* the key of the keyboard, or the button of the pad, is down
Down(this, key) ==
    IF this.inputMode = "keyboard" THEN key \in this.held
    ELSE Pressed(this, PolledButton(key))

\* the ghost `consumed` after a call that may have changed the input mode
Track(this) ==
    IF this.inputMode # input.inputMode THEN [this EXCEPT !.consumed = {}]
    ELSE this

\* the buttons the player presses: UP, LEFT and the first face button
PlayedButtons == {12, 14, 0}

\* the names of the keys the game reads
ReadKeys == {"UP", "LEFT", "SPACE"}

\* a pad is plugged in
ConnectPad ==
    /\ ~input.gamepads
    /\ CommitInput([Listening EXCEPT !.gamepads = TRUE], "connect", <<>>, <<>>)
    /\ UNCHANGED clock

\* the timeout of _pollNewGamepad fires
TimerPollNewGamepad ==
    /\ ~input.gamepadSupport
    /\ CommitInput(Track(_pollNewGamepad(Listening)), "_pollNewGamepad",
                   <<>>, <<>>)
    /\ UNCHANGED clock

\* the browser runs one of the pending animation frame callbacks
AnimationFrame ==
    \E handle \in input.frames :
        /\ input.nextFrame <= MaxFrames
        /\ CommitInput(Track(_pollGamepad([Listening EXCEPT
                                              !.frames = @ \ {handle}])),
                       "_pollGamepad", <<handle, input.inputMode>>, <<>>)
        /\ UNCHANGED clock

PressButton ==
    \E b \in PlayedButtons \ input.buttons :
        /\ input.gamepads
        /\ CommitInput([Listening EXCEPT !.buttons = @ \cup {b}], "press",
                       <<b>>, <<>>)
        /\ UNCHANGED clock

ReleaseButton ==
    \E b \in input.buttons :
        /\ CommitInput([Listening EXCEPT
                           !.buttons = @ \ {b},
                           !.consumed =
                               IF input.inputMode = "gamepad"
                               THEN {k \in @ : PolledButton(k) # b}
                               ELSE @],
                       "release", <<b>>, <<>>)
        /\ UNCHANGED clock

\* a key of the keyboard goes down
PressKey ==
    \E keyCode \in TypedKeys \ input.held :
        /\ CommitInput(keydown([Listening EXCEPT !.held = @ \cup {keyCode}],
                               keyCode),
                       "keydown", <<keyCode>>, <<>>)
        /\ UNCHANGED clock

\* a key that is down repeats
RepeatKey ==
    \E keyCode \in input.held :
        /\ CommitInput(keydown(Listening, keyCode), "keydown", <<keyCode>>,
                       <<>>)
        /\ UNCHANGED clock

ReleaseKey ==
    \E keyCode \in input.held :
        /\ CommitInput(keyup([Listening EXCEPT
                                 !.held = @ \ {keyCode},
                                 !.consumed =
                                     IF input.inputMode = "keyboard"
                                     THEN @ \ {keyCode} ELSE @],
                             keyCode),
                       "keyup", <<keyCode>>, <<>>)
        /\ UNCHANGED clock

\* isKeyDown(key, latch) with the name of a key
CallIsKeyDown ==
    \E key \in ReadKeys, latch \in BOOLEAN :
        LET keyCode == keys[key]
            read == getKeyStatus(Listening, keyCode, latch)
        IN  /\ CommitInput([read EXCEPT
                               !.consumed =
                                   IF /\ KeyStatus(input, keyCode)
                                      /\ latch
                                      /\ Down(input, keyCode)
                                   THEN @ \cup {keyCode} ELSE @],
                           "isKeyDown", <<key, latch>>,
                           KeyStatus(input, keyCode))
            /\ UNCHANGED clock

\* the keys the game installs callbacks for: LEFT and RIGHT by name, and
\* LEFT by its keyCode
CallbackKeys == {"LEFT", "RIGHT", "37"}

\* the functions the game installs
Callbacks == {"jump", "fire"}

\* the number of callbacks in keyCb
RECURSIVE Installed(_)
Installed(keyCb) ==
    IF DOMAIN keyCb = {} THEN 0
    ELSE LET p == CHOOSE q \in DOMAIN keyCb : TRUE
         IN  Len(keyCb[p].up) + Len(keyCb[p].down)
                 + Installed([q \in DOMAIN keyCb \ {p} |-> keyCb[q]])

\* args: the arguments, and the keyCb the call found
CallInstallKeyCallback ==
    \E key \in CallbackKeys, event \in {"up", "down"},
       callback \in Callbacks :
        /\ Installed(input.keyCb) < MaxCallbacks
        /\ CommitInput(installKeyCallback(Listening, key, event, callback),
                       "installKeyCallback",
                       <<key, event, callback, input.keyCb>>, <<>>)
        /\ UNCHANGED clock

CallRemoveKeyCallback ==
    \E key \in CallbackKeys, event \in {"up", "down"},
       callback \in Callbacks :
        /\ CommitInput(removeKeyCallback(Listening, key, event, callback),
                       "removeKeyCallback",
                       <<key, event, callback, input.keyCb>>, <<>>)
        /\ UNCHANGED clock

CallSetInputMode ==
    \E mode \in {"keyboard", "gamepad"} :
        /\ input.nextFrame <= MaxFrames
        /\ CommitInput(Track(setInputMode(Listening, mode)), "setInputMode",
                       <<mode, input.inputMode>>, <<>>)
        /\ UNCHANGED clock

----------------------------------------------------------------------------
(* Scrolling: a map without windows and triggers *)

InitScroll == InitWith({Small({}, NoWindows), Wide({}, NoWindows)})

NextScroll == CallMoveTo \/ CallUpdate \/ CallAddObject \/ CallReset

SpecScroll == InitScroll /\ [][NextScroll]_vars

----------------------------------------------------------------------------
(* Windows: a map with items to spawn, and no player *)

WindowsOfSmall ==
    [w \in {0, 1, 2, 4} |->
        [items |-> IF w = 1 THEN <<Enemy, Enemy>> ELSE <<Enemy>>]]

InitWin == InitWith({Small({}, WindowsOfSmall)})

NextWin == \/ CallMoveTo \/ CallUpdate \/ CallDraw
           \/ CallCheckVisibleWindows \/ CallReset

SpecWin == InitWin /\ [][NextWin]_vars

----------------------------------------------------------------------------
(* reset(): a map with windows, triggers and the player, created with the
   viewport one window to the right of the origin *)

Stage == [Small({8}, [w \in {0, 1} |-> [items |-> <<Enemy>>]])
            EXCEPT !.viewportX = -100]

InitReset == InitWith({Stage})

NextReset == CallAddObject \/ CallUpdate \/ CallDraw \/ CallReset

SpecReset == InitReset /\ [][NextReset]_vars

----------------------------------------------------------------------------
(* Triggers: a map with triggers and the player *)

InitTrig == InitWith({Small({8, 9, 14}, NoWindows), Wide({1, 3}, NoWindows)})

NextTrig == CallAddObject \/ CallUpdate \/ CallReset

SpecTrig == InitTrig /\ [][NextTrig]_vars

----------------------------------------------------------------------------
(* The grid: a map made on a buffer of its size, edited in place or given
   new planes of its size *)

InitGrid == InitWith({Tiny(TinyBuffer)})

NextGrid ==
    \/ CallUpdateTile
    \/ CallClear
    \/ CallShift
    \/ CallSetData
    \/ CallSetBuffer({FreshBuffer(map)})
    \/ CallDraw

SpecGrid == InitGrid /\ [][NextGrid]_vars

----------------------------------------------------------------------------
(* The layout: the same map, edited in place or given buffers of any size *)

NextLayout ==
    \/ CallUpdateTile
    \/ CallClear
    \/ CallShift
    \/ CallSetData
    \/ CallSetBuffer({FreshBuffer(map)} \cup OtherBuffers)

SpecLayout == InitGrid /\ [][NextLayout]_vars

----------------------------------------------------------------------------
(* Resizing: the same map, and resize() *)

NextResize == NextGrid \/ CallResize

SpecResize == InitGrid /\ [][NextResize]_vars

----------------------------------------------------------------------------
(* The buffer: maps made on buffers of any size, given buffers of any size,
   and resized *)

InitBuffer == InitWith({Tiny(b) : b \in {TinyBuffer} \cup OtherBuffers})

\* a constructor that threw has made no map to call
Constructed == ~(lastOp.name = "new" /\ result.thrown # "")

NextBuffer ==
    /\ Constructed
    /\ \/ CallUpdateTile
       \/ CallClear
       \/ CallShift
       \/ CallSetData
       \/ CallSetBuffer({FreshBuffer(map)} \cup OtherBuffers)
       \/ CallResize

SpecBuffer == InitBuffer /\ [][NextBuffer]_vars

----------------------------------------------------------------------------
(* Collisions: rooms with walls, and the queries *)

InitCollide == InitWith({Room(walls) : walls \in WallLayouts})

NextCollide ==
    \/ CallHitObjectTest
    \/ CallCheckMatrixForCollision
    \/ CallFallTest
    \/ CallGetTileBehaviorAtIndex
    \/ CallGetTriggersForBox

SpecCollide == InitCollide /\ [][NextCollide]_vars

----------------------------------------------------------------------------
(* Moves: the same rooms, and an entity moved along x *)

NextMove == CallSetNextX

SpecMove == InitCollide /\ [][NextMove]_vars

----------------------------------------------------------------------------
(* The registry: drawables added, removed and updated *)

InitRegistry == InitWith({Arena})

NextRegistry ==
    \/ CallAddDrawable
    \/ CallRemoveObject
    \/ CallUpdateFrame
    \/ CallReset

SpecRegistry == InitRegistry /\ [][NextRegistry]_vars

----------------------------------------------------------------------------
(* Following: a master that stays at the start position of the map, and no
   moveTo but those of checkMasterPosition *)

\* the two maps, with the start position on each of the player's positions
StartingAt ==
    UNION {{[o EXCEPT !.startX = pos.x, !.startY = pos.y] :
               pos \in PlayerPositions(o)} :
           o \in {Small({}, NoWindows), Wide({}, NoWindows)}}

InitFollow == InitWith(StartingAt)

NextFollow == CallAddObject \/ CallFollowFrame

SpecFollow == InitFollow /\ [][NextFollow]_vars

----------------------------------------------------------------------------
(* The master: the registry of the arena, with the player *)

NextMaster ==
    \/ CallAddObject
    \/ CallAddDrawable
    \/ CallSetMasterObject
    \/ CallRemoveObject
    \/ CallReset

SpecMaster == InitRegistry /\ [][NextMaster]_vars

----------------------------------------------------------------------------
(* Input: key events, and the recording and playback of key states *)

InitInput == InitWith({Small({}, NoWindows)})

NextInput ==
    \/ CallStartRecordingEvents
    \/ CallStopRecordingEvents
    \/ CallRecordEvents
    \/ CallPlayRecordedEvents
    \/ CallNextRecordedEvents
    \/ KeyDown
    \/ KeyUp
    \/ CallGetKeyStatus

SpecInput == InitInput /\ [][NextInput]_vars

----------------------------------------------------------------------------
(* Properties of the scroll controller *)

\* v clamped into [lo, hi]
ClampTo(v, lo, hi) == IF v < lo THEN lo ELSE IF v > hi THEN hi ELSE v

\* this update() is the first one at or after the end of the scroll in flight
Completes == /\ lastOp'.name = "update"
             /\ map.moving
             /\ clock' - map.startMoveTime >= Duration

\* this moveTo() is issued while no scroll is in flight
IdleMoveTo == lastOp'.name = "moveTo" /\ ~map.moving

\* C1: in every reachable state the viewport lies inside the map:
\* -xMax <= viewportX <= 0 and -yMax <= viewportY <= 0, also in the frames
\* of a scroll.
C1_ViewportInRange ==
    /\ -map.xMax <= map.viewportX /\ map.viewportX <= 0
    /\ -map.yMax <= map.viewportY /\ map.viewportY <= 0

\* C2: the first update() whose timestamp is at least `duration` after the
\* start of a scroll ends the scroll and puts the viewport exactly on the
\* requested target clamped into [-xMax, 0] x [-yMax, 0], whatever the easing
\* function returned in the frames before.
C2_ScrollConverges ==
    [][Completes =>
         /\ ~map'.moving
         /\ map'.viewportX = ClampTo(request.x, -map.xMax, 0)
         /\ map'.viewportY = ClampTo(request.y, -map.yMax, 0)]_vars

\* a scroll towards a target left of the map has been run to its end, with a
\* frame in between
C2_Witness ==
    /\ lastOp.name = "update"
    /\ ~map.moving
    /\ map.masterObject # NoObject
    /\ called = <<"movePlatforms", "moveObjects">>
    /\ request.x < -map.xMax
    /\ map.viewportX = -map.xMax
    /\ clock - map.startMoveTime > Duration

\* C3: moveTo() while a scroll is in flight changes no field of the map, and
\* the target the scroll in flight was requested with stays the one it ends on.
C3_MoveToWhileMovingIsNoOp ==
    [][(lastOp'.name = "moveTo" /\ map.moving) =>
         (map' = map /\ request' = request)]_vars

\* a moveTo() to another target than the one of the scroll in flight was dropped
C3_Witness ==
    /\ lastOp.name = "moveTo"
    /\ map.moving
    /\ <<lastOp.x, lastOp.y>> # <<request.x, request.y>>
    /\ ClampTo(lastOp.x, -map.xMax, 0) # map.viewportTargetX

\* C4: a moveTo() issued while idle whose target, clamped into
\* [-xMax, 0] x [-yMax, 0], is the current position of the viewport changes
\* nothing: no scroll starts.
C4_ClampBeforeCheck ==
    [][(/\ IdleMoveTo
        /\ ClampTo(lastOp'.x, -map.xMax, 0) = map.viewportX
        /\ ClampTo(lastOp'.y, -map.yMax, 0) = map.viewportY) =>
         map' = map]_vars

\* C5: a moveTo(x, y) with x < -xMax issued while idle either finds the
\* viewport at -xMax already or starts a scroll that ends with
\* viewportX = -xMax; likewise for y < -yMax.
C5_ClampsToFarEdge ==
    [][/\ (IdleMoveTo /\ lastOp'.x < -map.xMax) =>
             \/ ~map'.moving /\ map'.viewportX = -map.xMax
             \/ map'.moving /\ request'.x = lastOp'.x
       /\ (IdleMoveTo /\ lastOp'.y < -map.yMax) =>
             \/ ~map'.moving /\ map'.viewportY = -map.yMax
             \/ map'.moving /\ request'.y = lastOp'.y
       /\ (Completes /\ request.x < -map.xMax) =>
             map'.viewportX = -map.xMax
       /\ (Completes /\ request.y < -map.yMax) =>
             map'.viewportY = -map.yMax]_vars

\* a scroll requested beyond the bottom edge has ended on the bottom edge
C5_Witness ==
    /\ lastOp.name = "update"
    /\ ~map.moving
    /\ request.y < -map.yMax
    /\ map.yMax > 0
    /\ map.viewportY = -map.yMax
    /\ map.viewportStartY = 0
    /\ map.viewportSpeedY = -map.yMax

----------------------------------------------------------------------------
(* Properties of the window spawner *)

\* C6: between two reset() calls the items of a window are instantiated at
\* most once and no item is twice in the registry; a second
\* checkVisibleWindows() at the same viewport position adds nothing.
C6_WindowPopulatedOnce ==
    /\ [](/\ \A w \in DOMAIN spawned : spawned[w] <= 1
          /\ \A i, j \in 1..Len(map.objects) :
                map.objects[i] = map.objects[j] => i = j
          /\ \A w \in DOMAIN spawned :
                \A k \in 1..Len(map.options.windows[w].items) :
                    (<<w, k>> \in Range(map.objects)) <=> (spawned[w] = 1))
    /\ [][(/\ lastOp.name = "checkVisibleWindows"
           /\ lastOp'.name = "checkVisibleWindows"
           /\ map'.viewportX = map.viewportX
           /\ map'.viewportY = map.viewportY) =>
            (spawned' = spawned /\ map'.objects = map.objects)]_vars

\* checkVisibleWindows() has run again after a completed draw(), with the
\* items of windows 0 and 1 in the registry once each
C6_Witness ==
    /\ lastOp.name = "checkVisibleWindows"
    /\ ~map.isDirty /\ map.lastCol # 0
    /\ map.maxWinX = 3
    /\ spawned[0] = 1 /\ spawned[1] = 1
    /\ map.objects = <<<<0, 1>>, <<1, 1>>, <<1, 2>>>>

\* C7: when checkVisibleWindows() has run with the viewport resting exactly on
\* window column c of row r, the items of window r * maxWinX + c have been
\* instantiated exactly once.
C7_RestingWindowPopulated ==
    \A w \in DOMAIN map.windows :
        (/\ "checkVisibleWindows" \in Range(called)
         /\ map.viewportX = -(w % map.maxWinX) * map.viewportW
         /\ map.viewportY = -(w \div map.maxWinX) * map.viewportH) =>
            spawned[w] = 1

----------------------------------------------------------------------------
(* Properties of the triggers *)

\* the tile of trigger k lies in the columns and rows that the hit-box of a
\* player at `pos` spans
Covers(m, pos, k) ==
    LET col == k % m.numCols
        row == k \div m.numCols
    IN  /\ (pos.x + PlayerHitBox.x) \div m.tileWidth <= col
        /\ col <= (pos.x + PlayerHitBox.x2) \div m.tileWidth
        /\ (pos.y + PlayerHitBox.y) \div m.tileHeight <= row
        /\ row <= (pos.y + PlayerHitBox.y2) \div m.tileHeight

BoxTriggers(m, pos) ==
    Range(getTriggersForBox(m, pos.x + PlayerHitBox.x, pos.y + PlayerHitBox.y,
                            pos.x + PlayerHitBox.x2, pos.y + PlayerHitBox.y2))

Keys(d) == {d[i].key : i \in 1..Len(d)}

\* how often trigger k was dispatched
Times(d, k) == Cardinality({i \in 1..Len(d) : d[i].key = k})

\* this update() is entered with a master and no scroll in flight
IdleUpdate == /\ lastOp'.name = "update"
              /\ map.masterObject # NoObject
              /\ ~map.moving

\* C8: a trigger whose triggered flag is set is returned by getTriggersForBox
\* for no box, is not dispatched and keeps its flag, until reset() clears the
\* flag; after reset() every box covering its tile returns it.
C8_FiredTriggerExcluded ==
    /\ [](\A k \in DOMAIN map.triggers : \A pos \in PlayerPositions(map) :
            /\ map.triggers[k].triggered => k \notin BoxTriggers(map, pos)
            /\ (lastOp.name = "reset" /\ Covers(map, pos, k)) =>
                   k \in BoxTriggers(map, pos))
    /\ [][\A k \in DOMAIN map.triggers :
            map.triggers[k].triggered =>
                /\ k \notin Keys(dispatched')
                /\ map'.triggers[k].triggered = (lastOp'.name # "reset")]_vars

\* on the wide map, where the player's hit-box always covers a trigger: all
\* triggers are triggered, checkForTriggers() has run and dispatched none
C8_Witness ==
    /\ map.width = 1228
    /\ lastOp.name = "update"
    /\ "checkForTriggers" \in Range(called)
    /\ \A k \in DOMAIN map.triggers : map.triggers[k].triggered
    /\ dispatched = <<>>

\* C9: a dispatched trigger is marked triggered iff the handler returned a
\* falsy value; a trigger the handler returned a truthy value for is
\* dispatched again by the next update() that is entered with no scroll in
\* flight while the master's hit-box covers its tile.
C9_InvertedPolarity ==
    /\ [](\A i \in 1..Len(dispatched) :
            map.triggers[dispatched[i].key].triggered = ~dispatched[i].result)
    /\ [][\A k \in DOMAIN map.triggers :
            (/\ IdleUpdate
             /\ \E i \in 1..Len(dispatched) :
                    dispatched[i].key = k /\ dispatched[i].result
             /\ Covers(map, sprites[Player], k)) =>
                k \in Keys(dispatched')]_vars

\* the handler has answered truthy for a trigger that stays under the hit-box
\* of the master, with no scroll in flight, so that the next update() meets it
\* again; and another trigger has been marked after a falsy answer
C9_Witness ==
    /\ lastOp.name = "update"
    /\ map.masterObject # NoObject
    /\ ~map.moving
    /\ \E i \in 1..Len(dispatched) :
          /\ dispatched[i].result
          /\ ~map.triggers[dispatched[i].key].triggered
          /\ Covers(map, sprites[Player], dispatched[i].key)
    /\ \E k \in DOMAIN map.triggers : map.triggers[k].triggered

\* C10: an update() entered with a master and no scroll in flight dispatches
\* every trigger that is not triggered and lies under the master's hit-box
\* exactly once, and no other; an update() entered during a scroll (the one
\* ending the scroll included) or without a master dispatches none and runs
\* neither checkMasterPosition nor checkForTriggers.
C10_TriggersEveryIdleFrame ==
    [][lastOp'.name = "update" =>
         IF IdleUpdate
         THEN \A k \in DOMAIN map.triggers :
                 Times(dispatched', k) =
                     IF ~map.triggers[k].triggered
                        /\ Covers(map, sprites[Player], k)
                     THEN 1 ELSE 0
         ELSE /\ dispatched' = <<>>
              /\ "checkMasterPosition" \notin Range(called')
              /\ "checkForTriggers" \notin Range(called')]_vars

\* the three triggers under the hit-box have been dispatched in one update()
C10_Witness ==
    /\ lastOp.name = "update"
    /\ Len(dispatched) = 3
    /\ Keys(dispatched) = {8, 9, 14}

----------------------------------------------------------------------------
(* Properties of the tile grid *)

Cells(m) == (0..(m.numCols - 1)) \X (0..(m.numRows - 1))

\* the planes as the lookups by cell see them, row after row
VisualPlane(m) ==
    [i \in 1..(m.numCols * m.numRows) |->
        getTileAtIndex(m, (i - 1) % m.numCols, (i - 1) \div m.numCols)]
BehaviorPlane(m) ==
    [i \in 1..(m.numCols * m.numRows) |->
        getTileBehaviorAtIndex(m, (i - 1) % m.numCols, (i - 1) \div m.numCols)]

IsByte(v) == v \in 0..255

\* C13: updateTile(col, row, <omitted>, B) on a valid cell makes the behavior
\* of that cell B and changes no other behavior cell and no visual cell;
\* updateTile(col, row, T) changes the visual cell (col, row) to T and nothing
\* else; a call that changes a cell leaves isDirty set
C13_UpdateTileOneCell ==
    [][lastOp'.name = "updateTile" =>
        LET col == lastOp'.x
            row == lastOp'.y
            tileNum == lastOp'.args[1]
            behavior == lastOp'.args[2]
        IN  /\ (tileNum = -1 /\ IsByte(behavior)) =>
                /\ getTileBehaviorAtIndex(map', col, row) = behavior
                /\ \A c \in Cells(map) \ {<<col, row>>} :
                      getTileBehaviorAtIndex(map', c[1], c[2])
                        = getTileBehaviorAtIndex(map, c[1], c[2])
                /\ VisualPlane(map') = VisualPlane(map)
            /\ (IsByte(tileNum) /\ behavior = -1) =>
                /\ getTileAtIndex(map', col, row) = tileNum
                /\ \A c \in Cells(map) \ {<<col, row>>} :
                      getTileAtIndex(map', c[1], c[2])
                        = getTileAtIndex(map, c[1], c[2])
                /\ BehaviorPlane(map') = BehaviorPlane(map)
            /\ map'.buffer # map.buffer => map'.isDirty
            /\ result'.thrown = ""
    ]_vars

\* after a draw() has cleaned the grid, an updateTile has written a behavior
\* into the last cell, next to cells that kept theirs
C13_Witness ==
    /\ lastOp.name = "updateTile"
    /\ lastOp.x = 1 /\ lastOp.y = 2
    /\ lastOp.args = <<-1, 255>>
    /\ getTileBehaviorAtIndex(map, 1, 2) = 255
    /\ getTileBehaviorAtIndex(map, 0, 2) = WALL
    /\ getTileAtIndex(map, 1, 2) = 16
    /\ map.isDirty
    /\ map.lastCol # 0

\* C14: the visual plane and the behavior plane have the same length, and that
\* length is numCols * numRows
C14_PlanesSizedToGrid ==
    /\ map.map.len = map.tileBehaviors.len
    /\ map.map.len = map.numCols * map.numRows

\* C15: a constructor given a buffer whose length is not 2 * numCols * numRows
\* throws, and makes no map
C15_WrongBufferLengthFails ==
    (/\ lastOp.name = "new"
     /\ Len(map.options.buffer) # 2 * map.numCols * map.numRows)
    => result.thrown # ""

\* C16: setData(v, b) with two byte sequences of numCols * numRows elements
\* returns, and then the visual plane is v and the behavior plane is b
C16_SetDataRoundTrip ==
    [][(/\ lastOp'.name = "setData"
        /\ Len(lastOp'.args[1]) = map.numCols * map.numRows
        /\ Len(lastOp'.args[2]) = map.numCols * map.numRows
        /\ \A i \in 1..Len(lastOp'.args[1]) : IsByte(lastOp'.args[1][i])
        /\ \A i \in 1..Len(lastOp'.args[2]) : IsByte(lastOp'.args[2][i]))
       => /\ result'.thrown = ""
          /\ Plane(map'.buffer, map'.map) = lastOp'.args[1]
          /\ Plane(map'.buffer, map'.tileBehaviors) = lastOp'.args[2]
          /\ VisualPlane(map') = lastOp'.args[1]
          /\ BehaviorPlane(map') = lastOp'.args[2]
    ]_vars

\* setData has replaced the planes of a resized map by planes of its new size
C16_Witness ==
    /\ lastOp.name = "setData"
    /\ map.numRows = 4
    /\ Len(lastOp.args[1]) = 8
    /\ VisualPlane(map) = lastOp.args[1]
    /\ BehaviorPlane(map) = lastOp.args[2]
    /\ \E i \in 1..8 : lastOp.args[1][i] # lastOp.args[2][i]

\* C17: the buffer of the map has 2 * numCols * numRows bytes and is the
\* visual plane, row after row, followed by the behavior plane, row after row
C17_CanonicalLayout ==
    /\ Len(map.buffer) = 2 * map.numCols * map.numRows
    /\ map.buffer = VisualPlane(map) \o BehaviorPlane(map)

----------------------------------------------------------------------------
(* Properties of the collision queries *)

InGrid(m, col, row) ==
    col >= 0 /\ col < m.numCols /\ row >= 0 /\ row < m.numRows

\* the grid cell (col, row) carries code
Carries(m, col, row, code) ==
    InGrid(m, col, row) /\ getTileBehaviorAtIndex(m, col, row) = code

\* the rows spanned by a hit-box at height y: those meeting [y + hitBox.y,
\* y + hitBox.y2)
RowsSpanned(m, y, hitBox) ==
    {r \in 0..(m.numRows - 1) :
        r * m.tileHeight < y + hitBox.y2
        /\ (r + 1) * m.tileHeight > y + hitBox.y}

\* a wall in the rows of the hit-box, in the column of a pixel the leading
\* edge passes on its first d pixels of travel (to the right for vx > 0, else
\* to the left)
WallWithin(m, x, y, vx, hitBox, d) ==
    \E k \in 1..d, r \in RowsSpanned(m, y, hitBox) :
        Carries(m, IF vx > 0 THEN (x + hitBox.x2 + k) \div m.tileWidth
                   ELSE (x + hitBox.x - k) \div m.tileWidth, r, WALL)

\* the move stays in the world
MoveInWorld(m, x, vx, hitBox) ==
    /\ x + hitBox.x >= 0 /\ x + hitBox.x + vx >= 0
    /\ x + hitBox.x2 < m.width /\ x + hitBox.x2 + vx < m.width

\* C11: setNextX returns true iff a wall cell lies in the rows of the hit-box
\* within the columns swept by the leading edge travelling vx; when it returns
\* false x has changed by vx, when it returns true by the largest distance
\* that keeps the hit-box out of every wall cell
C11_SetNextXResolves ==
    lastOp.name = "setNextX" =>
        LET x == lastOp.args[1]
            y == lastOp.args[2]
            vx == lastOp.args[3]
            hitBox == lastOp.args[4]
            free == {d \in 0..Abs(vx) : ~WallWithin(map, x, y, vx, hitBox, d)}
            far == CHOOSE d \in free : \A e \in free : e <= d
        IN  MoveInWorld(map, x, vx, hitBox) =>
              /\ result.thrown = ""
              /\ result.ret <=> WallWithin(map, x, y, vx, hitBox, Abs(vx))
              /\ ~result.ret => sprites[Player].x = x + vx
              /\ result.ret =>
                    sprites[Player].x = x + (IF vx > 0 THEN far ELSE -far)

\* C12: in the 4 x 4 room with one Wall at (2, 1), the entity at (0, 10) with
\* a hit-box 10 high and vx = 25 collides and ends at x = 20; and a wall two
\* or more tiles ahead of the leading edge stops the entity flush against
\* that wall
C12_StopsFlushAgainstWall ==
    lastOp.name = "setNextX" =>
        LET x == lastOp.args[1]
            y == lastOp.args[2]
            vx == lastOp.args[3]
            hitBox == lastOp.args[4]
            lead == x + hitBox.x2
            ahead == {c \in 0..(map.numCols - 1) :
                        /\ c >= lead \div map.tileWidth + 2
                        /\ c * map.tileWidth <= lead + vx
                        /\ \E r \in RowsSpanned(map, y, hitBox) :
                              Carries(map, c, r, WALL)}
            nearest == CHOOSE c \in ahead : \A d \in ahead : c <= d
        IN  /\ (/\ \A c \in Cells(map) :
                      Carries(map, c[1], c[2], WALL) <=> c = <<2, 1>>
                /\ x = 0 /\ y = 10 /\ vx = 25
                /\ hitBox.y2 - hitBox.y = 10)
               => (result.thrown = "" /\ result.ret
                   /\ sprites[Player].x = 20)
            /\ (/\ vx > 0
                /\ ahead # {}
                /\ ~WallWithin(map, x, y, vx, hitBox,
                               nearest * map.tileWidth - lead - 1))
               => (result.thrown = "" /\ result.ret
                   /\ sprites[Player].x + hitBox.x2 + 1
                        = nearest * map.tileWidth)

\* the cells of the rectangle (x, y, x2, y2)
RectCells(m, r) ==
    {c \in Cells(m) :
        /\ c[1] >= r[1] \div m.tileWidth /\ c[1] <= r[3] \div m.tileWidth
        /\ c[2] >= r[2] \div m.tileHeight /\ c[2] <= r[4] \div m.tileHeight}

\* the stamp cell (i, j) is on: row i, column j of a stamp matrixWidth wide
StampOn(m, stamp, i, j) ==
    LET cols == stamp.matrixWidth \div m.tileWidth
    IN  /\ j < cols
        /\ i * cols + j < Len(stamp.buffer)
        /\ stamp.buffer[i * cols + j + 1] # 0

\* an on cell of the stamp overlaid at (x, y) lies on a grid cell with code
StampHits(m, stamp, x, y, code) ==
    \E i \in 0..Len(stamp.buffer), j \in 0..Len(stamp.buffer) :
        StampOn(m, stamp, i, j) /\ Carries(m, x + j, y + i, code)

\* C18: a lookup outside the grid raises nothing and reports no behavior, no
\* collision and no trigger for the cells outside it, never the content of
\* another cell
C18_OutsideGridNoMatch ==
    /\ result.thrown = ""
    /\ lastOp.name = "getTileBehaviorAtIndex"
         => (~InGrid(map, lastOp.x, lastOp.y) => result.ret = Undefined)
    /\ lastOp.name = "fallTest"
         => (~InGrid(map, lastOp.x \div map.tileWidth,
                     lastOp.y \div map.tileHeight) => ~result.ret)
    /\ lastOp.name = "hitObjectTest"
         => (result.ret.hit => InGrid(map, result.ret.x, result.ret.y))
    /\ lastOp.name = "checkMatrixForCollision"
         => (result.ret =>
               StampHits(map, lastOp.args[1], lastOp.x, lastOp.y, WALL))
    /\ lastOp.name = "getTriggersForBox"
         => \A i \in 1..Len(result.ret) :
               \E c \in RectCells(map, lastOp.args) :
                   result.ret[i] = c[2] * map.numCols + c[1]

\* C19: hitObjectTest returns a cell iff a cell meeting the rectangle carries
\* the code, and then the leftmost one of the topmost row that has one
C19_TopmostThenLeftmost ==
    lastOp.name = "hitObjectTest" =>
        LET r == lastOp.args
            matches == {c \in RectCells(map, r) :
                          Carries(map, c[1], c[2], WALL)}
        IN  (r[3] < map.width /\ r[4] < map.height) =>
              /\ result.ret.hit <=> matches # {}
              /\ result.ret.hit =>
                    /\ <<result.ret.x, result.ret.y>> \in matches
                    /\ \A c \in matches :
                          \/ result.ret.y < c[2]
                          \/ (result.ret.y = c[2] /\ result.ret.x <= c[1])

\* C20: checkMatrixForCollision is truthy iff an on cell (i, j) of the stamp
\* lies on a grid cell (x + j, y + i) that carries the code
C20_StampOverlay ==
    lastOp.name = "checkMatrixForCollision" =>
        (result.ret <=>
            StampHits(map, lastOp.args[1], lastOp.x, lastOp.y, WALL))

\* the same, for the stamps that lie inside the grid
StampInside ==
    lastOp.name = "checkMatrixForCollision" =>
        LET stamp == lastOp.args[1]
            cols == stamp.matrixWidth \div map.tileWidth
        IN  (/\ lastOp.x + cols <= map.numCols
             /\ lastOp.y + Len(stamp.buffer) \div cols <= map.numRows)
            => C20_StampOverlay

-----------------------------------------------------------------------------
\* Properties of the registry of drawables

\* how often obj.update() ran in the last call
Updates(obj) == Cardinality({i \in 1..Len(updated) : updated[i] = obj})

IsPlatform(obj) == Attr(map.options, obj).collideGroup = 3

IsMovable(obj) == Attr(map.options, obj).movable

\* C21: after removeObject(o), o is in none of objects, enemies, friendBullets
\* and platforms, and an update() of the map only calls update() of drawables
\* that were on the map when the frame began
C21_RemovedEverywhere ==
    /\ lastOp.name = "removeObject" =>
          lastOp.args[1] \notin Range(map.objects) \cup Range(map.enemies)
                                \cup Range(map.friendBullets)
                                \cup Range(map.platforms)
    /\ lastOp.name = "update" =>
          \A obj \in Range(updated) : obj \in Range(lastOp.args[2])

\* C22: after an update() in which the update() of a drawable removed a
\* drawable, every movable drawable still in objects was updated exactly once
C22_SurvivorsUpdatedOnce ==
    (lastOp.name = "update" /\ lastOp.args[1] # <<>>) =>
        \A obj \in Range(map.objects) : IsMovable(obj) => Updates(obj) = 1

\* C23: in an update() every movable platform is updated before any movable
\* drawable that is not a platform, no drawable is updated twice, and a
\* drawable that is not movable is never updated
C23_PlatformsFirstOncePerFrame ==
    lastOp.name = "update" =>
        /\ \A i, j \in 1..Len(updated) :
              (IsPlatform(updated[j]) /\ ~IsPlatform(updated[i])) => j < i
        /\ \A obj \in Range(updated) : Updates(obj) = 1 /\ IsMovable(obj)

-----------------------------------------------------------------------------
\* Properties of reset()

-----------------------------------------------------------------------------
\* Properties of shift()

\* line `row` of a plane
Line(plane, m, row) == SubSeq(plane, row * m.numCols + 1, (row + 1) * m.numCols)

\* C25: after shift(startLine, height, tile) with startLine + height <=
\* numRows, lines height .. height + startLine - 1 of both planes are lines
\* 0 .. startLine - 1 as they were before, the lines from height + startLine
\* on are as before, the buffer is the one the map had, cut in the same two
\* views, and isDirty is true
C25_ShiftCopiesLinesDown ==
    [][(lastOp'.name = "shift"
        /\ lastOp'.args[1] + lastOp'.args[2] <= map.numRows) =>
          LET startLine == lastOp'.args[1]
              height == lastOp'.args[2]
          IN  /\ result'.thrown = ""
              /\ \A r \in 0..(startLine - 1) :
                    /\ Line(VisualPlane(map'), map, height + r)
                         = Line(VisualPlane(map), map, r)
                    /\ Line(BehaviorPlane(map'), map, height + r)
                         = Line(BehaviorPlane(map), map, r)
              /\ \A r \in (height + startLine)..(map.numRows - 1) :
                    /\ Line(VisualPlane(map'), map, r)
                         = Line(VisualPlane(map), map, r)
                    /\ Line(BehaviorPlane(map'), map, r)
                         = Line(BehaviorPlane(map), map, r)
              /\ Len(map'.buffer) = Len(map.buffer)
              /\ map'.map = map.map
              /\ map'.tileBehaviors = map.tileBehaviors
              /\ map'.numRows = map.numRows /\ map'.numCols = map.numCols
              /\ map'.isDirty]_vars

\* shift(2, 1, tile) of a 2 x 3 map has run: lines 0 and 1, which differ, are
\* now lines 1 and 2, the copy overlapping its source
C25_Witness ==
    /\ lastOp.name = "shift"
    /\ lastOp.args[1] = 2 /\ lastOp.args[2] = 1
    /\ map.numRows = 3
    /\ result.thrown = ""
    /\ Line(VisualPlane(map), map, 1) # Line(VisualPlane(map), map, 2)
    /\ Line(VisualPlane(map), map, 0) = Line(VisualPlane(map), map, 1)

\* C26: after shift(startLine, height, tile), lines 0 .. height - 1 of the
\* visual plane hold `tile` in every cell
C26_NewLinesHoldTile ==
    (lastOp.name = "shift" /\ result.thrown = "") =>
        \A r \in 0..(lastOp.args[2] - 1) :
            \A c \in 0..(map.numCols - 1) :
                getTileAtIndex(map, c, r) = lastOp.args[3]

-----------------------------------------------------------------------------
\* Properties of the InputManager

\* C27: with n snapshots recorded, the k-th nextRecordedEvents() after a
\* playRecordedEvents() that was called while no playback was on installs
\* snapshot k as keyPressed, for k = 1 .. n, and the (n+1)-th ends the
\* playback and sets the eight standard keys to false
C27_PlaybackFromFirst ==
    [][(lastOp'.name = "nextRecordedEvents" /\ input.playingEvents) =>
          LET n == Len(input.recordedEvents)
              k == input.played + 1
          IN  IF k <= n
              THEN /\ KeyPressed(input') = input.recordedEvents[k]
                   /\ input'.playingEvents
              ELSE /\ ~input'.playingEvents
                   /\ KeyPressed(input') = [key \in StandardKeys |-> FALSE]]_vars

-----------------------------------------------------------------------------
\* Termination of setNextX

\* C28: setNextX returns for every entity whose hit-box is inside the world,
\* whatever vx is, |vx| >= tileWidth included, and also when no wall lies in
\* the direction of travel
C28_SetNextXTerminates ==
    lastOp.name = "setNextX" =>
        LET x == lastOp.args[1]
            hitBox == lastOp.args[4]
        IN  (x + hitBox.x >= 0 /\ x + hitBox.x2 < map.width) =>
                result.thrown # "never returns"

-----------------------------------------------------------------------------
\* The order of the triggers

\* C29: the triggers that checkForTriggers dispatches in one update() are
\* dispatched row by row, and from left to right within a row: their keys
\* row * numCols + col ascend
C29_TriggersRowMajor ==
    lastOp.name = "update" =>
        \A i, j \in 1..Len(dispatched) :
            i < j => dispatched[i].key < dispatched[j].key

-----------------------------------------------------------------------------
\* The scroll that follows the master

\* the target the rule of C30 gives on one axis: viewport and master are the
\* position of the viewport and of the master on that axis, size the size of
\* the viewport, max the far end of the range
FollowTarget(viewport, master, size, max, limit, center) ==
    IF viewport # 0 /\ master + viewport <= limit
    THEN Min(viewport + center, 0)
    ELSE IF (size - viewport) - master <= limit
    THEN (IF viewport - center < -max THEN -max ELSE viewport - center)
    ELSE viewport

\* C30: an update() entered idle and with a master starts a scroll towards
\* viewportX + viewportCenterX, at most 0, if viewportX # 0 and master.x +
\* viewportX <= viewportLimitX, else towards viewportX - viewportCenterX, at
\* least -xMax, if (viewportW - viewportX) - master.x <= viewportLimitX, and
\* likewise in y; if that target is the position of the viewport the map
\* stays idle; in both cases the frame leaves the viewport where it is
C30_FollowsMaster ==
    [][IdleUpdate =>
          LET targetX == FollowTarget(map.viewportX, sprites[Player].x,
                                      map.viewportW, map.xMax,
                                      ViewportLimitX, ViewportCenterX)
              targetY == FollowTarget(map.viewportY, sprites[Player].y,
                                      map.viewportH, map.yMax,
                                      ViewportLimitY, ViewportCenterY)
          IN  /\ map'.viewportX = map.viewportX
              /\ map'.viewportY = map.viewportY
              /\ IF targetX = map.viewportX /\ targetY = map.viewportY
                 THEN ~map'.moving
                 ELSE /\ map'.moving
                      /\ map'.viewportTargetX = targetX
                      /\ map'.viewportTargetY = targetY]_vars

\* on the small map an update() has started a scroll back towards the
\* origin, its target viewportX + viewportCenterX cut to 0
C30_Witness ==
    /\ lastOp.name = "update"
    /\ "checkMasterPosition" \in Range(called)
    /\ map.width = 300
    /\ map.moving
    /\ map.viewportX < 0
    /\ request.x = map.viewportX + ViewportCenterX
    /\ request.x > 0
    /\ map.viewportTargetX = 0

-----------------------------------------------------------------------------
\* The windows that are populated

\* the rectangle of window w, as large as the viewport, meets the viewport
WindowVisible(m, w) ==
    LET left == (w % m.maxWinX) * m.viewportW
        top == (w \div m.maxWinX) * m.viewportH
    IN  /\ left < -m.viewportX + m.viewportW
        /\ -m.viewportX < left + m.viewportW
        /\ top < -m.viewportY + m.viewportH
        /\ -m.viewportY < top + m.viewportH

\* C31: a window that draw() or checkVisibleWindows() populates meets the
\* viewport, wherever the viewport is
C31_OnlyVisibleWindows ==
    [][lastOp'.name \in {"draw", "checkVisibleWindows"} =>
          \A w \in DOMAIN map.windows :
              (~map.windows[w].displayed /\ map'.windows[w].displayed) =>
                  WindowVisible(map', w)]_vars

-----------------------------------------------------------------------------
\* draw() without a source bitmap

NoBitmap == "no source bitmap found when drawing map"

\* C32: a draw() of a map with tiles whose source bitmap is not resolved
\* throws and leaves the map as it was: dirty, no window marked, no object
\* added; and a draw() that marks a window or clears isDirty was entered
\* with isDirty true or lastCol 0 and returned
C32_DrawThrowsCleanly ==
    [][lastOp'.name = "draw" =>
          /\ (map.tiles # 0 /\ ~map.srcBitmap /\ ~lastOp'.args[1]) =>
                /\ result'.thrown = NoBitmap
                /\ map' = map
                /\ spawned' = spawned
                /\ map'.isDirty
          /\ (map'.windows # map.windows \/ (map.isDirty /\ ~map'.isDirty)) =>
                /\ result'.thrown = ""
                /\ map.isDirty \/ map.lastCol = 0]_vars

\* draw() has thrown on a map scrolled onto window 1, whose items a completed
\* draw() would have added
C32_Witness ==
    /\ lastOp.name = "draw"
    /\ result.thrown = NoBitmap
    /\ map.viewportX = -map.viewportW
    /\ map.isDirty
    /\ ~map.windows[1].displayed
    /\ map.objects = <<>>

-----------------------------------------------------------------------------
\* Scrolls that follow a master at rest

\* this update() was entered with the master on the map and a scroll in
\* flight, and has ended the scroll
ScrollCompleted ==
    /\ lastOp.name = "update"
    /\ map.masterObject # NoObject
    /\ "checkMasterPosition" \notin Range(called)
    /\ ~map.moving

\* C33: with the master at rest and no moveTo from outside, once a scroll
\* has completed no other scroll is started: the frame after the one that
\* ended a scroll leaves the map idle
C33_NoSecondScroll == [][ScrollCompleted => ~map.moving']_vars

-----------------------------------------------------------------------------
\* reset() during a scroll

\* C34: after reset() the map is not moving, also when a scroll was in
\* flight, and an update() that follows the reset() leaves the viewport at
\* the offsets of the options
C34_ResetStopsScroll ==
    /\ [](lastOp.name = "reset" => ~map.moving)
    /\ [][(lastOp.name = "reset" /\ lastOp'.name = "update") =>
            /\ map'.viewportX = map.options.viewportX
            /\ map'.viewportY = map.options.viewportY]_vars

-----------------------------------------------------------------------------
\* The step setNextX takes

\* C35: a setNextX that returns has moved the entity in the direction of vx,
\* or not at all, and by |vx| at most
C35_StepWithinVelocity ==
    (lastOp.name = "setNextX" /\ result.thrown = "") =>
        LET vx == lastOp.args[3]
            dx == sprites[Player].x - lastOp.args[1]
        IN  /\ Abs(dx) <= Abs(vx)
            /\ vx >= 0 => dx >= 0
            /\ vx <= 0 => dx <= 0

-----------------------------------------------------------------------------
\* The master and the registry

\* C36: masterObject is null or a drawable that is in objects
C36_MasterInRegistry ==
    map.masterObject = NoObject \/ map.masterObject \in Range(map.objects)

-----------------------------------------------------------------------------
\* Redrawing

\* the last call was a draw() that painted the tiles: the screen shows the
\* visual plane and the viewport of this state
JustPainted ==
    /\ lastOp.name = "draw"
    /\ result.thrown = ""
    /\ "checkVisibleWindows" \in Range(called)

\* C37: a call that makes the visual plane or the position of the viewport
\* differ from what draw() has just painted leaves isDirty true
C37_ChangeMarksDirty ==
    [][(/\ JustPainted
        /\ \/ VisualPlane(map') # VisualPlane(map)
           \/ map'.viewportX # map.viewportX
           \/ map'.viewportY # map.viewportY) => map'.isDirty]_vars

----------------------------------------------------------------------------
(* The latch: the keyboard, then a pad that is plugged in and polled *)

NextLatch ==
    \/ PressKey
    \/ RepeatKey
    \/ ReleaseKey
    \/ ConnectPad
    \/ TimerPollNewGamepad
    \/ AnimationFrame
    \/ PressButton
    \/ ReleaseButton
    \/ CallIsKeyDown

SpecLatch == InitInput /\ [][NextLatch]_vars

\* C38: a key read as pressed with a latch is read as not pressed as long as
\* its key or pad button stays down, in keyboard mode and in gamepad mode
C38_LatchedUntilReleased ==
    \A key \in input.consumed : ~KeyStatus(input, key)

----------------------------------------------------------------------------
(* Polling: the input mode set by the game and by the detection of a pad,
   and the animation frames *)

NextPoll ==
    \/ CallSetInputMode
    \/ ConnectPad
    \/ TimerPollNewGamepad
    \/ AnimationFrame
    \/ PressButton
    \/ ReleaseButton

SpecPoll == InitInput /\ [][NextPoll]_vars

\* a _pollGamepad callback ran while the input mode was 'keyboard'
PolledInKeyboardMode ==
    lastOp.name = "_pollGamepad" /\ lastOp.args[2] = "keyboard"

\* C39: at most one _pollGamepad callback is pending at any time, and none
\* runs while the input mode is 'keyboard', whatever the order of the
\* setInputMode calls and the animation frames
C39_OnePollingLoop ==
    /\ Cardinality(input.frames) <= 1
    /\ ~PolledInKeyboardMode

----------------------------------------------------------------------------
(* Key callbacks: installed, removed, and invoked by the key events *)

NextCallbacks ==
    \/ CallInstallKeyCallback
    \/ CallRemoveKeyCallback
    \/ PressKey
    \/ ReleaseKey

SpecCallbacks == InitInput /\ [][NextCallbacks]_vars

\* the keyCode of a key given by name or by keyCode
KeyCodeOf(key) == IF key \in DOMAIN keys THEN keys[key] ELSE 37

\* the callbacks that the listener of `event` invokes for the key
CallbackList(keyCb, key, event) ==
    IF PropertyName(KeyCodeOf(key)) \in DOMAIN keyCb
    THEN keyCb[PropertyName(KeyCodeOf(key))][event]
    ELSE <<>>

\* removeKeyCallback follows an installKeyCallback with the same arguments
RoundTrip ==
    /\ lastOp.name = "installKeyCallback"
    /\ lastOp'.name = "removeKeyCallback"
    /\ \A i \in 1..3 : lastOp'.args[i] = lastOp.args[i]

\* C40: removeKeyCallback(key, event, cb) right after installKeyCallback(key,
\* event, cb) throws nothing and leaves the list of callbacks of that key
\* and event as it was before the install
C40_InstallRemoveRoundTrip ==
    [][RoundTrip =>
          /\ result'.thrown = ""
          /\ CallbackList(input'.keyCb, lastOp.args[1], lastOp.args[2])
                 = CallbackList(lastOp.args[4], lastOp.args[1],
                                lastOp.args[2])]_vars

====
